---- MODULE Spec2Model ----
(***************************************************************************)
(* Container entrypoint of the function runtime                            *)
(* (modal/_container_entrypoint.py): main, the user-exception and the      *)
(* input-scoped funnels, the input loop of _FunctionIOManager, the sync    *)
(* and async dispatchers and the signal-aware runner.                      *)
(*                                                                         *)
(* One driver is modelled; pc is its position.  An RPC is "in flight"      *)
(* between the step that issues the request (the request is then in the    *)
(* log of requests sent) and the step in which the awaiting code resumes.  *)
(* A signal may land at every such suspension point.  The RPCs wrapped in  *)
(* retry_transient_errors are taken to return eventually.                  *)
(*                                                                         *)
(* time.time() is a logical clock that advances by one unit with every     *)
(* run of the handler and with every FunctionPutOutputs call that returns; *)
(* the program reads it only while an input is current.  The heartbeat     *)
(* loop task runs next to the driver in HeartbeatSpec; in Spec it sleeps   *)
(* until the TaskContext of heartbeats() stops it.                         *)
(***************************************************************************)
EXTENDS Integers, Sequences, FiniteSets, TLC

\* ------------------------------------------------------------------ bounds
MaxInputs == 2
MaxYields == 1
MaxSignals == 1
MaxTasks == 3
MaxAttempts == 3
MaxItems == 3
MaxBatchSize == 2
MaxValues == 2
MaxChunks == 4
MaxRuns == 2
MaxRejected == 1
MaxFailedCreates == 1

\* --------------------------------------------------------------- constants
NoInput == 0
NoTime == 0
NoData == 0
NoBlob == 0

\* no bytes: a bytes field or a blob id of an envelope that is not set
NoArgs == <<>>

\* the offload threshold of _blob_utils, scaled down
MAX_OBJECT_SIZE_BYTES == 2

Hooks == {"__enter__", "__exit__", "__aenter__", "__aexit__"}

\* the hooks the handler's object defines: none (or no object), the sync
\* pair, the async pair, all four; each dispatcher then meets each outcome
\* of its hasattr tests
HookSets ==
  {{}, {"__enter__", "__exit__"}, {"__aenter__", "__aexit__"}, Hooks}
FunKinds ==
  {"function", "generatorfunction", "coroutinefunction", "asyncgenfunction"}
ResKinds == {"value", "generator", "coroutine", "asyncgen"}

\* lengths of the serialized payloads a handler produces: at the threshold
\* and one byte over it
DataLens == {MAX_OBJECT_SIZE_BYTES, MAX_OBJECT_SIZE_BYTES + 1}

\* what self.serialize can encode of an exception the user code raises: the
\* exception object, the traceback extracted from it
Picklable == {"exception", "traceback"}

VARIABLES
  cfg,                 \* container_args.function_def + the imported handler,
                       \* the length of what it returns, serialized, and
                       \* what can be serialized of its exceptions
  pc,                  \* position of the driver
  exc,                 \* exception propagating out of the current scope
  scope,               \* site of the user-exception funnel that is active
  cur,                 \* item of _generate_inputs: input_id, final_input,
                       \* kill_switch
  current_input_id,    \* _FunctionIOManager.current_input_id
  calls_completed,     \* _FunctionIOManager.calls_completed
  output_index,        \* SequenceNumber of the dispatcher
  yields,              \* values produced so far by the running generator
  res,                 \* res of the dispatcher: what the handler returned
  caught,              \* exc bound by the except clause of the input funnel
  put_outputs,         \* FunctionPutOutputs requests sent, in order
  handler_calls,       \* number of fun(*args, **kwargs) invocations
  task_results,        \* TaskResult requests sent, in order
  hooks_run,           \* import / lifecycle hooks executed, with outcome
  signals,             \* SIGINT/SIGTERM delivered so far
  next_input,          \* id of the next envelope the control plane hands out
  args,                \* args of the dispatcher: what the handler is called on
  blob_downloads,      \* blob ids blob_download was called on, in order
  drain_task,          \* task created from self._send_outputs()
  process_result,      \* how __main__ ended
  now,                 \* time.time(), a logical clock
  current_input_started_at,  \* _FunctionIOManager.current_input_started_at
  total_user_time,     \* _FunctionIOManager.total_user_time
  handler_time,        \* time the handler itself ran for the current input
  heartbeat_pc,        \* position of the heartbeat loop task
  heartbeat_request,   \* request of the _heartbeat call in progress
  get_inputs_request,  \* FunctionGetInputsRequest of _generate_inputs
  tc_grace,            \* TaskContext._grace
  tc_tasks,            \* TaskContext._tasks, loop tasks are those of _loops
  tc_pc,               \* position of the code that uses the TaskContext
  tc_unfinished,       \* unfinished_tasks of TaskContext.stop
  tc_visited,          \* tasks the last loop of TaskContext.stop has seen
  rt_n_attempts,       \* retry: n_attempts
  rt_i,                \* retry: i of `for i in range(n_attempts)`
  rt_delay,            \* retry: delay
  rt_pc,               \* retry: position of f_wrapped
  rt_attempts,         \* retry: outcome of each invocation of fn so far
  rt_result,           \* retry: what f_wrapped returned or raised
  qb_max_batch_size,   \* queue_batch_iterator: max_batch_size
  qb_q,                \* queue_batch_iterator: the asyncio.Queue q
  qb_item_list,        \* queue_batch_iterator: item_list
  qb_pc,               \* queue_batch_iterator: position of the generator
  qb_batches,          \* the lists the iterator has yielded, in order
  qb_put,              \* what the producer has put on q, in order
  cg_generator,        \* chunk_generator: number of values of `generator`
  cg_anext_calls,      \* chunk_generator: generator.__anext__() calls made
  cg_task,             \* chunk_generator: task
  cg_done,             \* chunk_generator: done
  cg_pc,               \* chunk_generator: position of the outer generator
                       \* and of the chunk being consumed
  cg_chunks,           \* the values each chunk has yielded, chunk by chunk
  ss_state,            \* Session.state
  ss_client,           \* Session.client
  ss_session_id,       \* Session.session_id
  ss_objects,          \* Session._objects
  ss_pending,          \* Session._pending_create_objects
  ss_object,           \* _object_id and _session_id of each object
  ss_flush_lock,       \* holder of Session._flush_lock
  ss_flush,            \* position of each flush_objects call
  ss_pc,               \* position of the _run generator
  ss_scope,            \* where the caller is about `with session.run()`
  ss_requests,         \* the requests sent to the server, in order
  ss_runs,             \* runs that got past the state test
  ss_rejected          \* runs that the state test turned down

vars == <<cfg, pc, exc, scope, cur, current_input_id, calls_completed,
          output_index, yields, res, caught, put_outputs, handler_calls,
          task_results, hooks_run, signals, next_input, args, blob_downloads,
          drain_task, process_result, now, current_input_started_at,
          total_user_time, handler_time, heartbeat_pc, heartbeat_request,
          get_inputs_request, tc_grace, tc_tasks, tc_pc, tc_unfinished,
          tc_visited, rt_n_attempts, rt_i, rt_delay, rt_pc, rt_attempts,
          rt_result, qb_max_batch_size, qb_q, qb_item_list, qb_pc,
          qb_batches, qb_put, cg_generator, cg_anext_calls, cg_task,
          cg_done, cg_pc, cg_chunks, ss_state, ss_client, ss_session_id,
          ss_objects, ss_pending, ss_object, ss_flush_lock, ss_flush, ss_pc,
          ss_scope, ss_requests, ss_runs, ss_rejected>>

\* the state of the container entrypoint
container ==
  <<cfg, pc, exc, scope, cur, current_input_id, calls_completed,
    output_index, yields, res, caught, put_outputs, handler_calls,
    task_results, hooks_run, signals, next_input, args, blob_downloads,
    drain_task, process_result, now, current_input_started_at,
    total_user_time, handler_time, heartbeat_pc, heartbeat_request,
    get_inputs_request>>

\* the objects of the libraries next to the entrypoint: a TaskContext, a
\* call of a retry wrapper, a queue_batch_iterator, a chunk_generator and a
\* Session.  Each is run by a specification of its own
task_context == <<tc_grace, tc_tasks, tc_pc, tc_unfinished, tc_visited>>
retry_call ==
  <<rt_n_attempts, rt_i, rt_delay, rt_pc, rt_attempts, rt_result>>
batch_iterator ==
  <<qb_max_batch_size, qb_q, qb_item_list, qb_pc, qb_batches, qb_put>>
chunks ==
  <<cg_generator, cg_anext_calls, cg_task, cg_done, cg_pc, cg_chunks>>
session ==
  <<ss_state, ss_client, ss_session_id, ss_objects, ss_pending, ss_object,
    ss_flush_lock, ss_flush, ss_pc, ss_scope, ss_requests, ss_runs,
    ss_rejected>>
library == <<task_context, retry_call, batch_iterator, chunks, session>>

\* what a step of one library object leaves alone
beside_task_context ==
  <<container, retry_call, batch_iterator, chunks, session>>
beside_retry_call ==
  <<container, task_context, batch_iterator, chunks, session>>
beside_batch_iterator ==
  <<container, task_context, retry_call, chunks, session>>
beside_chunks ==
  <<container, task_context, retry_call, batch_iterator, session>>
beside_session ==
  <<container, task_context, retry_call, batch_iterator, chunks>>

\* the clock and the time bookkeeping of the I/O manager
timing == <<now, current_input_started_at, total_user_time, handler_time>>

\* the heartbeat loop task
heartbeat == <<heartbeat_pc, heartbeat_request>>

\* ------------------------------------------------------------ pure helpers

\* get_is_async: coroutine / async generator functions are async
get_is_async(function) ==
  function \in {"coroutinefunction", "asyncgenfunction"}

is_async == get_is_async(cfg.fun_kind)

\* SequenceNumber.increase
increase(value) == value + 1

\* api_pb2.FunctionPutOutputsItem built by _send_output; gen_status keeps the
\* protobuf default (not a generator result) unless the caller passes one
FunctionPutOutputsItem(input_id, gen_index, result) ==
  [input_id |-> input_id, gen_index |-> gen_index, status |-> result.status,
   gen_status |-> result.gen_status, exception |-> result.exception,
   traceback |-> result.exception, data |-> result.data,
   data_blob_id |-> result.data_blob_id,
   serialized_tb |-> result.serialized_tb]

\* api_pb2.GenericResult(**kwargs) as _send_output builds it; a keyword
\* that is None leaves its field unset
GenericResult(status, gen_status, exception, data, data_blob_id, tb) ==
  [status |-> status, gen_status |-> gen_status, exception |-> exception,
   data |-> data, data_blob_id |-> data_blob_id, serialized_tb |-> tb]

\* the outputs sent so far, one per FunctionPutOutputsRequest(outputs=[output])
Outputs == [k \in 1..Len(put_outputs) |-> put_outputs[k].outputs[1]]

OutputsOf(i) == SelectSeq(Outputs, LAMBDA o : o.input_id = i)

\* inspect.iscoroutine / isgenerator / isasyncgen on the handler's result
iscoroutine(obj) == obj = "coroutine"
isgenerator(obj) == obj = "generator"
isasyncgen(obj) == obj = "asyncgen"

\* variant of the type checks in which the scalar modes accept a generator
InvalidReturn_scalar_gen(async, is_generator, obj) ==
  IF async
    THEN IF is_generator
           THEN ~isasyncgen(obj)
           ELSE ~iscoroutine(obj) /\ ~isasyncgen(obj)
    ELSE IF is_generator
           THEN ~isgenerator(obj)
           ELSE iscoroutine(obj) \/ isasyncgen(obj)

\* variant of the type checks in which the async scalar test has the
\* polarity of the sync one: it raises on a coroutine
InvalidReturn_inverted(async, is_generator, obj) ==
  IF async
    THEN IF is_generator
           THEN ~isasyncgen(obj)
           ELSE iscoroutine(obj) \/ isgenerator(obj) \/ isasyncgen(obj)
    ELSE IF is_generator
           THEN ~isgenerator(obj)
           ELSE iscoroutine(obj) \/ isgenerator(obj) \/ isasyncgen(obj)

\* the type checks of the dispatchers: TRUE when InvalidError is raised
InvalidReturn(async, is_generator, obj) ==
  IF async
    THEN IF is_generator
           THEN ~isasyncgen(obj)
           ELSE ~iscoroutine(obj) \/ isgenerator(obj) \/ isasyncgen(obj)
    ELSE IF is_generator
           THEN ~isgenerator(obj)
           ELSE iscoroutine(obj) \/ isgenerator(obj) \/ isasyncgen(obj)

\* what fun(*args, **kwargs) can return, by the kind of function object
Returns(fun_kind) ==
  CASE fun_kind = "generatorfunction" -> {"generator"}
    [] fun_kind = "coroutinefunction" -> {"coroutine"}
    [] fun_kind = "asyncgenfunction" -> {"asyncgen"}
    [] OTHER -> ResKinds

\* pre-run hook chosen by the dispatcher ("none": no hook is called)
PreHook(async, hooks) ==
  IF async
    THEN IF "__aenter__" \in hooks THEN "__aenter__"
         ELSE IF "__enter__" \in hooks THEN "__enter__" ELSE "none"
    ELSE IF "__enter__" \in hooks THEN "__enter__" ELSE "none"

\* variant of the dispatcher without the finally clause
PostHook_none(async, hooks) == "none"

\* post-run hook chosen by the dispatcher in its finally clause
PostHook(async, hooks) ==
  IF async
    THEN IF "__aexit__" \in hooks THEN "__aexit__"
         ELSE IF "__exit__" \in hooks THEN "__exit__" ELSE "none"
    ELSE IF "__exit__" \in hooks THEN "__exit__" ELSE "none"

\* the exception a signal raises in the driver: task.cancel() in the async
\* runner, the default SIGINT handler of the interpreter otherwise
SignalException == IF is_async THEN "CancelledError" ELSE "KeyboardInterrupt"

\* run_with_signal_handler: run_until_complete(task) in try/finally, the
\* exception of the task, if any, is the exception of the call
run_with_signal_handler(e) == e

\* variant of __main__ without the except UserException clause
EntryPoint_uncaught(e) ==
  CASE e = "none" -> "done"
    [] e = "KeyboardInterrupt" -> "interrupted"
    [] OTHER -> "crashed"

\* __main__: except UserException / except KeyboardInterrupt around main
EntryPoint(e) ==
  CASE e = "none" -> "done"
    [] e = "UserException" -> "user_exception"
    [] e = "KeyboardInterrupt" -> "interrupted"
    [] OTHER -> "crashed"

\* the exit status of the interpreter: __main__ runs to its end after main
\* returned or after one of its except clauses; an exception that leaves
\* __main__ ends the interpreter with status 1
ExitCode(result) == IF result = "crashed" THEN 1 ELSE 0

\* ------------------------------------------------------------ library idle
\* a TaskContext that has been entered and has no task yet
TaskContextIdle ==
  /\ tc_grace = "None"
  /\ tc_tasks = <<>>
  /\ tc_pc = "entered"
  /\ tc_unfinished = {}
  /\ tc_visited = {}

\* a wrapper made by retry that has not been called
RetryIdle ==
  /\ rt_n_attempts = 0
  /\ rt_i = 0
  /\ rt_delay = 0
  /\ rt_pc = "for"
  /\ rt_attempts = <<>>
  /\ rt_result = <<>>

\* a queue_batch_iterator that has not been iterated, on an empty queue
BatchIteratorIdle ==
  /\ qb_max_batch_size = 1
  /\ qb_q = <<>>
  /\ qb_item_list = <<>>
  /\ qb_pc = "while"
  /\ qb_batches = <<>>
  /\ qb_put = <<>>

\* a chunk_generator that has not been iterated, over an empty generator
ChunksIdle ==
  /\ cg_generator = 0
  /\ cg_anext_calls = 0
  /\ cg_task = <<"None">>
  /\ cg_done = FALSE
  /\ cg_pc = "while"
  /\ cg_chunks = <<>>

\* the tags of the objects a program defines, and the flush_objects calls:
\* the one _run makes and one the program makes
Tags == {"image", "function"}
Flushers == {"run", "user"}

\* Session.__init__: no object, no lock, no client, state NONE, and no
\* session_id
SessionIdle ==
  /\ ss_state = "NONE"
  /\ ss_client = <<"None">>
  /\ ss_session_id = <<"None">>
  /\ ss_objects = <<>>
  /\ ss_pending = <<>>
  /\ ss_object =
       [t \in Tags |-> [object_id |-> <<"None">>, session_id |-> <<"None">>]]
  /\ ss_flush_lock = "free"
  /\ ss_flush =
       [f \in Flushers |->
          [pc |-> "idle", obj |-> "none", session_id |-> <<"None">>]]
  /\ ss_pc = "none"
  /\ ss_scope = "out"
  /\ ss_requests = <<>>
  /\ ss_runs = 0
  /\ ss_rejected = 0

\* the library objects before anything is done with them
LibraryIdle ==
  /\ TaskContextIdle
  /\ RetryIdle
  /\ BatchIteratorIdle
  /\ ChunksIdle
  /\ SessionIdle

\* -------------------------------------------------------------------- Init
\* the state of a container before the import, whatever it is to run
Start ==
  /\ pc = "import"
  /\ exc = "none"
  /\ scope = "none"
  /\ cur = [input_id |-> NoInput, final_input |-> FALSE,
            kill_switch |-> FALSE, args |-> NoArgs, args_blob_id |-> NoArgs]
  /\ current_input_id = NoInput
  /\ calls_completed = 0
  /\ output_index = 0
  /\ yields = 0
  /\ res = "none"
  /\ caught = "none"
  /\ put_outputs = <<>>
  /\ handler_calls = 0
  /\ task_results = <<>>
  /\ hooks_run = <<>>
  /\ signals = 0
  /\ next_input = 1
  /\ args = NoArgs
  /\ blob_downloads = <<>>
  /\ drain_task = "none"
  /\ process_result = "running"
  /\ now = 1
  /\ current_input_started_at = NoTime
  /\ total_user_time = 0
  /\ handler_time = 0
  /\ heartbeat_pc = "wait"
  /\ heartbeat_request = <<>>
  /\ get_inputs_request = [average_call_time |-> <<0, 1>>, max_values |-> 0]

Init ==
  /\ cfg \in [fun_kind : FunKinds, is_generator : BOOLEAN,
              hooks : HookSets, data_len : DataLens, pickles : {Picklable}]
  /\ Start
  /\ LibraryIdle

\* ----------------------------------------------------------- serialization
\* the serialized (args, kwargs) the client made for input i, and the id of
\* the blob it stored them in when they were too long for the envelope
FunctionInputArgs(i) == <<"pickle", i>>
BlobId(i) == <<"blob", i>>

\* variant of blob_download that returns the bytes of another blob
blob_download_other(blob_id) == <<"pickle", blob_id[2] + 1>>

\* blob_download: the bytes stored under the id
blob_download(blob_id) == <<"pickle", blob_id[2]>>

\* self.deserialize(data) of the args of an envelope: the (args, kwargs) the
\* client serialized, here named after the input they belong to
deserialize(data) == <<"args", data[2]>>

\* self.serialize(obj) of a result or of an exception: its length
serialize(obj) == cfg.data_len

\* serialize_exception: best effort, None when self.serialize(exc) raises
serialize_exception(e) ==
  IF "exception" \in cfg.pickles THEN serialize(e) ELSE NoData

\* serialize_traceback: best effort, (None, None) when extract_traceback or
\* self.serialize raises; serialized_tb stands for the pair
serialize_traceback(e) ==
  IF "traceback" \in cfg.pickles THEN serialize(e) ELSE NoData

\* the GenericResult of handle_user_exception
TaskResult(e) ==
  [status |-> "FAILURE", exception |-> e, traceback |-> e,
   data |-> serialize_exception(e), serialized_tb |-> serialize_traceback(e)]

\* ------------------------------------------------- user-exception funnel
\* variant in which the pre-run hook is called inside the try statement of
\* the dispatcher, so that its exception passes through the finally clause
AfterScope_into_finally(site) ==
  IF site = "pre_hook" THEN "post_hook"
  ELSE IF site = "import" \/ ~is_async THEN "main" ELSE "runner"

\* where control goes when an exception leaves the funnel at this site
AfterScope(site) == IF site = "import" \/ ~is_async THEN "main" ELSE "runner"

\* variant of handle_user_exception that raises UserException without the
\* TaskResult request
handle_user_exception_unreported(e, site) ==
  /\ exc' = IF e = "KeyboardInterrupt" THEN e ELSE "UserException"
  /\ pc' = AfterScope(site)
  /\ UNCHANGED <<task_results, scope>>

\* handle_user_exception: KeyboardInterrupt is re-raised, anything else is
\* reported with TaskResult(FAILURE) before UserException is raised
handle_user_exception(e, site) ==
  IF e = "KeyboardInterrupt"
    THEN /\ exc' = e
         /\ pc' = AfterScope(site)
         /\ UNCHANGED <<task_results, scope>>
    ELSE /\ task_results' = Append(task_results, TaskResult(e))
         /\ scope' = site
         /\ pc' = "task_result"
         /\ UNCHANGED exc

\* the TaskResult RPC returns: raise UserException()
TaskResultReturn ==
  /\ pc = "task_result"
  /\ exc' = "UserException"
  /\ pc' = AfterScope(scope)
  /\ scope' = "none"
  /\ UNCHANGED <<library, cfg, get_inputs_request, cur, current_input_id,
                 calls_completed, output_index, yields, res, caught,
                 put_outputs, handler_calls, task_results, hooks_run, signals,
                 next_input, args, blob_downloads, drain_task, process_result,
                 timing, heartbeat>>

\* -------------------------------------------------------------------- main
\* main: import_function inside handle_user_exception
ImportOk ==
  /\ pc = "import"
  /\ hooks_run' = Append(hooks_run, <<"import", "ok">>)
  /\ pc' = "pre_hook"
  /\ UNCHANGED <<library, cfg, get_inputs_request, exc, scope, cur,
                 current_input_id, calls_completed, output_index, yields, res,
                 caught, put_outputs, handler_calls, task_results, signals,
                 next_input, args, blob_downloads, drain_task, process_result,
                 timing, heartbeat>>

ImportRaises ==
  /\ pc = "import"
  /\ hooks_run' = Append(hooks_run, <<"import", "UserError">>)
  /\ handle_user_exception("UserError", "import")
  /\ UNCHANGED <<library, cfg, get_inputs_request, cur, current_input_id,
                 calls_completed, output_index, yields, res, caught,
                 put_outputs, handler_calls, signals, next_input, args,
                 blob_downloads, drain_task, process_result, timing,
                 heartbeat>>

\* the exceptions a hook can end with: its own, or the signal's when the
\* signal lands while the hook runs (an awaited hook in the async runner,
\* any hook on the main thread otherwise)
HookExceptions == {"UserError"} \cup
  (IF signals < MaxSignals THEN {SignalException} ELSE {})

\* call_function_sync / call_function_async: the pre-run hook, outside try
PreHookStep ==
  /\ pc = "pre_hook"
  /\ LET h == PreHook(is_async, cfg.hooks) IN
     \/ /\ h = "none"
        /\ pc' = "loop_enter"
        /\ UNCHANGED <<exc, scope, task_results, hooks_run, signals>>
     \/ /\ h # "none"
        /\ hooks_run' = Append(hooks_run, <<h, "ok">>)
        /\ pc' = "loop_enter"
        /\ UNCHANGED <<exc, scope, task_results, signals>>
     \/ /\ h # "none"
        /\ \E e \in HookExceptions :
             /\ (e = SignalException) => (h = "__aenter__" \/ ~is_async)
             /\ hooks_run' = Append(hooks_run, <<h, e>>)
             /\ signals' = IF e = SignalException THEN signals + 1 ELSE signals
             /\ handle_user_exception(e, "pre_hook")
  /\ UNCHANGED <<library, cfg, get_inputs_request, cur, current_input_id,
                 calls_completed, output_index, yields, res, caught,
                 put_outputs, handler_calls, next_input, args, blob_downloads,
                 drain_task, process_result, timing, heartbeat>>

\* the finally clause of the dispatcher: the post-run hook
PostHookStep ==
  /\ pc = "post_hook"
  /\ LET h == PostHook(is_async, cfg.hooks) IN
     \/ /\ h = "none"
        /\ pc' = AfterScope("post_hook")
        /\ UNCHANGED <<exc, scope, task_results, hooks_run, signals>>
     \/ /\ h # "none"
        /\ hooks_run' = Append(hooks_run, <<h, "ok">>)
        /\ pc' = AfterScope("post_hook")
        /\ UNCHANGED <<exc, scope, task_results, signals>>
     \/ /\ h # "none"
        /\ \E e \in HookExceptions :
             /\ (e = SignalException) => (h = "__aexit__" \/ ~is_async)
             /\ hooks_run' = Append(hooks_run, <<h, e>>)
             /\ signals' = IF e = SignalException THEN signals + 1 ELSE signals
             /\ handle_user_exception(e, "post_hook")
  /\ UNCHANGED <<library, cfg, get_inputs_request, cur, current_input_id,
                 calls_completed, output_index, yields, res, caught,
                 put_outputs, handler_calls, next_input, args, blob_downloads,
                 drain_task, process_result, timing, heartbeat>>

\* run_with_signal_handler returns or raises what the task ended with
RunnerReturn ==
  /\ pc = "runner"
  /\ exc' = run_with_signal_handler(exc)
  /\ pc' = "main"
  /\ UNCHANGED <<library, cfg, get_inputs_request, scope, cur,
                 current_input_id, calls_completed, output_index, yields, res,
                 caught, put_outputs, handler_calls, task_results, hooks_run,
                 signals, next_input, args, blob_downloads, drain_task,
                 process_result, timing, heartbeat>>

\* TaskContext._exited of heartbeats(): stop() sets the event when the with
\* statement of main is left, and it stays set
_exited == pc \in {"stopping", "exited"}

\* the loop task of infinite_loop has ended: it saw the event and logged
\* "Exiting infinite loop", or it broke out on CancelledError
HeartbeatEnded == heartbeat_pc \in {"stopped", "cancelled"}

\* the body of `with function_io_manager.heartbeats()` in main ends or an
\* exception leaves it: TaskContext.stop() sets _exited and waits for the
\* loop task, for at most the grace period
HeartbeatsExit ==
  /\ pc = "main"
  /\ pc' = "stopping"
  /\ UNCHANGED <<library, cfg, get_inputs_request, exc, scope, cur,
                 current_input_id, calls_completed, output_index, yields, res,
                 caught, put_outputs, handler_calls, task_results, hooks_run,
                 signals, next_input, args, blob_downloads, drain_task,
                 process_result, timing, heartbeat>>

\* stop() returns once the loop task has ended; task.result() of the loop
\* task raises nothing, and main returns or raises into the try/except of
\* __main__
MainReturn ==
  /\ pc = "stopping"
  /\ HeartbeatEnded
  /\ process_result' = EntryPoint(exc)
  /\ pc' = "exited"
  /\ UNCHANGED <<library, cfg, get_inputs_request, exc, scope, cur,
                 current_input_id, calls_completed, output_index, yields, res,
                 caught, put_outputs, handler_calls, task_results, hooks_run,
                 signals, next_input, args, blob_downloads, drain_task,
                 timing, heartbeat>>

\* ------------------------------------------------------ _FunctionIOManager
\* blob_upload: the id of the new blob, one more than the uploads so far
blob_upload(data) ==
  1 + Cardinality({k \in 1..Len(put_outputs) : put_outputs[k].uploads # <<>>})

\* variant of _send_output that uploads the data and also leaves it inline
_send_output_dup(input_id, gen_index, status, gen_status, exception, data, tb) ==
  LET too_big == data # NoData /\ data > MAX_OBJECT_SIZE_BYTES IN
    [task |-> "driver",
     uploads |-> IF too_big THEN <<data>> ELSE <<>>,
     outputs |-> <<FunctionPutOutputsItem(
                     input_id, gen_index,
                     GenericResult(
                       status, gen_status, exception, data,
                       IF too_big THEN blob_upload(data) ELSE NoBlob, tb))>>]

\* _send_output: data longer than MAX_OBJECT_SIZE_BYTES is uploaded and
\* replaced by data_blob_id; then one
\* FunctionPutOutputsRequest(outputs=[output]) per call, awaited by the
\* caller.  The request is logged with the uploads made for it
_send_output(input_id, gen_index, status, gen_status, exception, data, tb) ==
  LET too_big == data # NoData /\ data > MAX_OBJECT_SIZE_BYTES IN
    [task |-> "driver",
     uploads |-> IF too_big THEN <<data>> ELSE <<>>,
     outputs |-> <<FunctionPutOutputsItem(
                     input_id, gen_index,
                     GenericResult(
                       status, gen_status, exception,
                       IF too_big THEN NoData ELSE data,
                       IF too_big THEN blob_upload(data) ELSE NoBlob, tb))>>]

\* variant of handle_input_exception that swallows the exception without
\* sending the FAILURE output
handle_input_exception_silent(input_id, index, e) ==
  IF e = "KeyboardInterrupt"
    THEN /\ exc' = e
         /\ pc' = "post_hook"
         /\ UNCHANGED <<put_outputs, caught>>
    ELSE /\ caught' = e
         /\ pc' = "post_input"
         /\ UNCHANGED <<exc, put_outputs>>

\* variant of handle_input_exception that serializes the exception and its
\* traceback outside a try statement: when one of them cannot be serialized
\* the error of the serializer leaves the funnel and nothing is sent
handle_input_exception_strict(input_id, index, e) ==
  IF e = "KeyboardInterrupt"
    THEN /\ exc' = e
         /\ pc' = "post_hook"
         /\ UNCHANGED <<put_outputs, caught>>
    ELSE IF cfg.pickles # Picklable
      THEN /\ exc' = "SerializeError"
           /\ caught' = e
           /\ pc' = "post_hook"
           /\ UNCHANGED put_outputs
      ELSE /\ put_outputs' = Append(put_outputs,
                               _send_output(input_id, index, "FAILURE",
                                            "NOT_GENERATOR", e,
                                            serialize_exception(e),
                                            serialize_traceback(e)))
           /\ caught' = e
           /\ pc' = "except_send"
           /\ UNCHANGED exc

\* handle_input_exception, the except clauses: KeyboardInterrupt is
\* re-raised, any other BaseException is sent as a FAILURE output with the
\* current value of output_index
handle_input_exception(input_id, index, e) ==
  IF e = "KeyboardInterrupt"
    THEN /\ exc' = e
         /\ pc' = "post_hook"
         /\ UNCHANGED <<put_outputs, caught>>
    ELSE /\ put_outputs' = Append(put_outputs,
                             _send_output(input_id, index, "FAILURE",
                                          "NOT_GENERATOR", e,
                                          serialize_exception(e),
                                          serialize_traceback(e)))
         /\ caught' = e
         /\ pc' = "except_send"
         /\ UNCHANGED exc

\* send_output: serialize(data), then _send_output(SUCCESS)
send_output(input_id, index) ==
  \/ /\ put_outputs' = Append(put_outputs,
                          _send_output(input_id, index, "SUCCESS",
                                       "NOT_GENERATOR", "",
                                       serialize("data"), NoData))
     /\ pc' = "send"
     /\ UNCHANGED <<exc, caught>>
  \/ handle_input_exception(input_id, index, "SerializeError")

\* send_generator_value: serialize(data), then _send_output(INCOMPLETE)
send_generator_value(input_id, index) ==
  \/ /\ put_outputs' = Append(put_outputs,
                          _send_output(input_id, index, "SUCCESS",
                                       "INCOMPLETE", "", serialize("data"),
                                       NoData))
     /\ pc' = "send"
     /\ UNCHANGED <<exc, caught>>
  \/ handle_input_exception(input_id, index, "SerializeError")

\* variant of send_generator_eof that leaves gen_status at its default
send_generator_eof_default(input_id, index) ==
  /\ put_outputs' = Append(put_outputs,
                       _send_output(input_id, index, "SUCCESS",
                                    "NOT_GENERATOR", "", NoData, NoData))
  /\ pc' = "send"
  /\ UNCHANGED <<exc, caught>>

\* send_generator_eof: _send_output(COMPLETE), no data to serialize
send_generator_eof(input_id, index) ==
  /\ put_outputs' = Append(put_outputs,
                       _send_output(input_id, index, "SUCCESS", "COMPLETE", "",
                                    NoData, NoData))
  /\ pc' = "send"
  /\ UNCHANGED <<exc, caught>>

\* _send_outputs, the coroutine of the drain task: it serves the output
\* queue until the queue is closed
_send_outputs(queue_closed) == IF queue_closed THEN "done" ELSE "running"

\* TaskContext.stop: a task that is still unfinished after the grace period
\* is cancelled
stop(task) == IF task = "running" THEN "cancelled" ELSE task

\* run_inputs_outputs, first step: TaskContext(grace=10) is entered and the
\* task of self._send_outputs() is created.  The class at hand defines no
\* _send_outputs; the task is modelled from the design description as a
\* drain of the output queue, which stays blocked because _send_output puts
\* nothing on a queue
LoopEnter ==
  /\ pc = "loop_enter"
  /\ drain_task' = _send_outputs(FALSE)
  /\ pc' = "poll"
  /\ UNCHANGED <<library, cfg, get_inputs_request, exc, scope, cur,
                 current_input_id, calls_completed, output_index, yields, res,
                 caught, put_outputs, handler_calls, task_results, hooks_run,
                 signals, next_input, args, blob_downloads, process_result,
                 timing, heartbeat>>

\* ---- request statistics.  Seconds are rationals <<numerator, denominator>>
\* with a positive denominator; the clock counts ticks
Rat(n, d) == <<n, d>>
RatLess(a, b) == a[1] * b[2] < b[1] * a[2]
RatEq(a, b) == a[1] * b[2] = b[1] * a[2]
RatMax(a, b) == IF RatLess(a, b) THEN b ELSE a
\* a / b for b > 0
RatDiv(a, b) == Rat(a[1] * b[2], a[2] * b[1])
\* math.ceil of a rational that is >= 0
ceil(a) == (a[1] + a[2] - 1) \div a[2]

\* ticks of the clock in one second of time.time()
TicksPerSecond == 3000000

\* RTT_S = 0.5
RTT_S == Rat(1, 2)

\* the 1e-6 under which get_max_inputs_to_fetch does not let the average go
MinCallTime == Rat(1, 1000000)

\* total_user_time / calls_completed in seconds
get_average_call_time ==
  IF calls_completed = 0
    THEN Rat(0, 1)
    ELSE Rat(total_user_time, calls_completed * TicksPerSecond)

\* the formula applied in every state, without the branch on
\* calls_completed = 0
get_max_inputs_to_fetch_always_ceil ==
  ceil(RatDiv(RTT_S, RatMax(get_average_call_time, MinCallTime)))

get_max_inputs_to_fetch ==
  IF calls_completed = 0
    THEN 1
    ELSE ceil(RatDiv(RTT_S, RatMax(get_average_call_time, MinCallTime)))

\* _generate_inputs: the FunctionGetInputs request is sent
GetInputsRequest ==
  /\ pc = "poll"
  /\ get_inputs_request' = [average_call_time |-> get_average_call_time,
                            max_values |-> get_max_inputs_to_fetch]
  /\ pc' = "get_inputs"
  /\ UNCHANGED <<library, cfg, exc, scope, cur, current_input_id,
                 calls_completed, output_index, yields, res, caught,
                 put_outputs, handler_calls, task_results, hooks_run, signals,
                 next_input, args, blob_downloads, drain_task, process_result,
                 timing, heartbeat>>

\* variant in which a rate-limited poll is counted as a completed call
RateLimited_counted ==
  /\ pc = "get_inputs"
  /\ pc' = "sleep"
  /\ calls_completed' = calls_completed + 1
  /\ UNCHANGED <<library, cfg, get_inputs_request, exc, scope, cur,
                 current_input_id, output_index, yields, res, caught,
                 put_outputs, handler_calls, task_results, hooks_run, signals,
                 next_input, args, blob_downloads, drain_task, process_result,
                 timing, heartbeat>>

\* response.rate_limit_sleep_duration is set: sleep, then poll again
RateLimited ==
  /\ pc = "get_inputs"
  /\ pc' = "sleep"
  /\ UNCHANGED <<library, cfg, get_inputs_request, exc, scope, cur,
                 current_input_id, calls_completed, output_index, yields, res,
                 caught, put_outputs, handler_calls, task_results, hooks_run,
                 signals, next_input, args, blob_downloads, drain_task,
                 process_result, timing, heartbeat>>

SleepDone ==
  /\ pc = "sleep"
  /\ pc' = "poll"
  /\ UNCHANGED <<library, cfg, get_inputs_request, exc, scope, cur,
                 current_input_id, calls_completed, output_index, yields, res,
                 caught, put_outputs, handler_calls, task_results, hooks_run,
                 signals, next_input, args, blob_downloads, drain_task,
                 process_result, timing, heartbeat>>

\* variant of the kill switch that is ignored: the loop polls again
KillSwitch_ignored ==
  /\ pc = "get_inputs"
  /\ cur' = [input_id |-> NoInput, final_input |-> FALSE,
             kill_switch |-> TRUE, args |-> NoArgs, args_blob_id |-> NoArgs]
  /\ pc' = "poll"
  /\ UNCHANGED <<library, cfg, get_inputs_request, exc, scope,
                 current_input_id, calls_completed, output_index, yields, res,
                 caught, put_outputs, handler_calls, task_results, hooks_run,
                 signals, next_input, args, blob_downloads, drain_task,
                 process_result, timing, heartbeat>>

\* item.kill_switch: the loop of _generate_inputs ends, nothing is yielded
KillSwitch ==
  /\ pc = "get_inputs"
  /\ cur' = [input_id |-> NoInput, final_input |-> FALSE,
             kill_switch |-> TRUE, args |-> NoArgs, args_blob_id |-> NoArgs]
  /\ pc' = "loop_exit"
  /\ UNCHANGED <<library, cfg, get_inputs_request, exc, scope,
                 current_input_id, calls_completed, output_index, yields, res,
                 caught, put_outputs, handler_calls, task_results, hooks_run,
                 signals, next_input, args, blob_downloads, drain_task,
                 process_result, timing, heartbeat>>

\* an envelope is received and yielded by _generate_inputs;
\* run_inputs_outputs sets current_input_id and yields it to the dispatcher
InputReceived ==
  /\ pc = "get_inputs"
  /\ next_input <= MaxInputs
  /\ \E final \in BOOLEAN :
       cur' = [input_id |-> next_input, final_input |-> final,
               kill_switch |-> FALSE, args |-> FunctionInputArgs(next_input),
               args_blob_id |-> NoArgs]
  /\ next_input' = next_input + 1
  /\ args' = deserialize(cur'.args)
  /\ current_input_id' = next_input
  /\ caught' = "none"
  /\ pc' = "call"
  /\ current_input_started_at' = now
  /\ handler_time' = 0
  /\ UNCHANGED <<library, cfg, get_inputs_request, exc, scope, calls_completed,
                 output_index, yields, res, put_outputs, handler_calls,
                 task_results, hooks_run, signals, blob_downloads, drain_task,
                 process_result>>
  /\ UNCHANGED <<now, total_user_time, heartbeat>>

\* an envelope with inline args is received but deserialize raises: it runs
\* outside the input funnel, before current_input_id is set, and the
\* exception leaves run_inputs_outputs
InputDecodeFails ==
  /\ pc = "get_inputs"
  /\ next_input <= MaxInputs
  /\ \E final \in BOOLEAN :
       cur' = [input_id |-> next_input, final_input |-> final,
               kill_switch |-> FALSE, args |-> FunctionInputArgs(next_input),
               args_blob_id |-> NoArgs]
  /\ next_input' = next_input + 1
  /\ exc' = "DecodeError"
  /\ pc' = "loop_exit"
  /\ UNCHANGED <<library, cfg, get_inputs_request, scope, current_input_id,
                 calls_completed, output_index, yields, res, caught,
                 put_outputs, handler_calls, task_results, hooks_run, signals,
                 args, blob_downloads, drain_task, process_result, timing,
                 heartbeat>>

\* an envelope whose args_oneof is args_blob_id is received:
\* populate_input_blobs starts the download
BlobInputReceived ==
  /\ pc = "get_inputs"
  /\ next_input <= MaxInputs
  /\ \E final \in BOOLEAN :
       cur' = [input_id |-> next_input, final_input |-> final,
               kill_switch |-> FALSE, args |-> NoArgs,
               args_blob_id |-> BlobId(next_input)]
  /\ next_input' = next_input + 1
  /\ blob_downloads' = Append(blob_downloads, cur'.args_blob_id)
  /\ pc' = "download"
  /\ UNCHANGED <<library, cfg, get_inputs_request, exc, scope,
                 current_input_id, calls_completed, output_index, yields, res,
                 caught, put_outputs, handler_calls, task_results, hooks_run,
                 signals, args, drain_task, process_result, timing,
                 heartbeat>>

\* populate_input_blobs without ClearField: the blob id stays in the envelope
populate_input_blobs_keeps_id(item) ==
  [item EXCEPT !.args = blob_download(item.args_blob_id)]

\* populate_input_blobs once blob_download has returned: the envelope gets
\* the downloaded bytes as args and loses its blob id
populate_input_blobs(item) ==
  [item EXCEPT !.args = blob_download(item.args_blob_id),
               !.args_blob_id = NoArgs]

\* blob_download returns: populate_input_blobs clears args_blob_id and sets
\* args; the envelope is yielded, run_inputs_outputs deserializes its args,
\* sets current_input_id and yields to the dispatcher
PopulateInputBlobs ==
  /\ pc = "download"
  /\ cur' = populate_input_blobs(cur)
  /\ args' = deserialize(cur'.args)
  /\ current_input_id' = cur.input_id
  /\ caught' = "none"
  /\ pc' = "call"
  /\ current_input_started_at' = now
  /\ handler_time' = 0
  /\ UNCHANGED <<library, cfg, get_inputs_request, exc, scope, calls_completed,
                 output_index, yields, res, put_outputs, handler_calls,
                 task_results, hooks_run, signals, next_input, blob_downloads,
                 drain_task, process_result>>
  /\ UNCHANGED <<now, total_user_time, heartbeat>>

\* blob_download raises, or it returns and deserialize raises on the bytes:
\* the exception leaves run_inputs_outputs as in InputDecodeFails
PopulateInputBlobsFails ==
  /\ pc = "download"
  /\ \/ /\ exc' = "DownloadError"
        /\ UNCHANGED cur
     \/ /\ exc' = "DecodeError"
        /\ cur' = populate_input_blobs(cur)
  /\ pc' = "loop_exit"
  /\ UNCHANGED <<library, cfg, get_inputs_request, scope, current_input_id,
                 calls_completed, output_index, yields, res, caught,
                 put_outputs, handler_calls, task_results, hooks_run, signals,
                 next_input, args, blob_downloads, drain_task, process_result,
                 timing, heartbeat>>

\* variant in which _generate_inputs does not test final_input
PostInput_ignores_final ==
  /\ pc = "post_input"
  /\ current_input_id' = NoInput
  /\ calls_completed' = calls_completed + 1
  /\ res' = "none"
  /\ pc' = "poll"
  /\ total_user_time' = total_user_time + (now - current_input_started_at)
  /\ current_input_started_at' = NoTime
  /\ UNCHANGED <<library, cfg, get_inputs_request, exc, scope, cur,
                 output_index, yields, caught, put_outputs, handler_calls,
                 task_results, hooks_run, signals, next_input, args,
                 blob_downloads, drain_task, process_result>>
  /\ UNCHANGED <<now, handler_time, heartbeat>>

\* variant of the bookkeeping that leaves current_input_id set
PostInput_keeps_current ==
  /\ pc = "post_input"
  /\ calls_completed' = calls_completed + 1
  /\ res' = "none"
  /\ pc' = IF cur.final_input THEN "loop_exit" ELSE "poll"
  /\ total_user_time' = total_user_time + (now - current_input_started_at)
  /\ UNCHANGED <<library, cfg, get_inputs_request, exc, scope, cur,
                 current_input_id, output_index, yields, caught, put_outputs,
                 handler_calls, task_results, hooks_run, signals, next_input,
                 args, blob_downloads, drain_task, process_result>>
  /\ UNCHANGED <<now, current_input_started_at, handler_time, heartbeat>>

\* run_inputs_outputs after the yield: bookkeeping; then _generate_inputs
\* ends on final_input or polls again
PostInput ==
  /\ pc = "post_input"
  /\ current_input_id' = NoInput
  /\ calls_completed' = calls_completed + 1
  /\ res' = "none"
  /\ pc' = IF cur.final_input THEN "loop_exit" ELSE "poll"
  /\ total_user_time' = total_user_time + (now - current_input_started_at)
  /\ current_input_started_at' = NoTime
  /\ UNCHANGED <<library, cfg, get_inputs_request, exc, scope, cur,
                 output_index, yields, caught, put_outputs, handler_calls,
                 task_results, hooks_run, signals, next_input, args,
                 blob_downloads, drain_task, process_result>>
  /\ UNCHANGED <<now, handler_time, heartbeat>>

\* run_inputs_outputs ends (or an exception leaves it): TaskContext.stop()
\* waits for the grace period and cancels the task that is still running
LoopExit ==
  /\ pc = "loop_exit"
  /\ drain_task' = stop(drain_task)
  /\ pc' = "post_hook"
  /\ UNCHANGED <<library, cfg, get_inputs_request, exc, scope, cur,
                 current_input_id, calls_completed, output_index, yields, res,
                 caught, put_outputs, handler_calls, task_results, hooks_run,
                 signals, next_input, args, blob_downloads, process_result,
                 timing, heartbeat>>

\* -------------------------------------------------------------- dispatcher
\* call_function_sync / call_function_async, body of the loop up to the
\* first suspension: output_index = SequenceNumber(0), res = fun(...), the
\* type checks, and for a sync scalar handler send_output.  res stays
\* "none" when the call itself raises
Call ==
  /\ pc = "call"
  /\ output_index' = 0
  /\ yields' = 0
  /\ handler_calls' = handler_calls + 1
  /\ \/ /\ res' = "none"
        /\ handle_input_exception(cur.input_id, 0, "UserError")
     \/ /\ res' \in Returns(cfg.fun_kind)
        /\ IF InvalidReturn(is_async, cfg.is_generator, res')
             THEN handle_input_exception(cur.input_id, 0, "InvalidError")
             ELSE IF cfg.is_generator
               THEN pc' = "iterate" /\ UNCHANGED <<exc, caught, put_outputs>>
               ELSE IF is_async
                 THEN pc' = "await_res" /\ UNCHANGED <<exc, caught, put_outputs>>
                 ELSE send_output(cur.input_id, 0)
  /\ now' = now + 1
  /\ handler_time' = handler_time + 1
  /\ UNCHANGED <<library, cfg, get_inputs_request, scope, cur,
                 current_input_id, calls_completed, task_results, hooks_run,
                 signals, next_input, args, blob_downloads, drain_task,
                 process_result>>
  /\ UNCHANGED <<current_input_started_at, total_user_time, heartbeat>>

\* for value in res / async for value in res: the next value, the end of
\* the generator, or an exception of the generator
Iterate ==
  /\ pc = "iterate"
  /\ \/ /\ yields < MaxYields
        /\ yields' = yields + 1
        /\ send_generator_value(cur.input_id, output_index)
     \/ /\ send_generator_eof(cur.input_id, output_index)
        /\ UNCHANGED yields
     \/ /\ handle_input_exception(cur.input_id, output_index, "UserError")
        /\ UNCHANGED yields
  /\ UNCHANGED res
  /\ now' = now + 1
  /\ handler_time' = handler_time + 1
  /\ UNCHANGED <<library, cfg, get_inputs_request, scope, cur,
                 current_input_id, calls_completed, output_index,
                 handler_calls, task_results, hooks_run, signals, next_input,
                 args, blob_downloads, drain_task, process_result>>
  /\ UNCHANGED <<current_input_started_at, total_user_time, heartbeat>>

\* value = await res; send_output(value)
AwaitRes ==
  /\ pc = "await_res"
  /\ \/ send_output(cur.input_id, output_index)
     \/ handle_input_exception(cur.input_id, output_index, "UserError")
  /\ now' = now + 1
  /\ handler_time' = handler_time + 1
  /\ UNCHANGED <<library, cfg, get_inputs_request, scope, cur,
                 current_input_id, calls_completed, output_index, yields, res,
                 handler_calls, task_results, hooks_run, signals, next_input,
                 args, blob_downloads, drain_task, process_result>>
  /\ UNCHANGED <<current_input_started_at, total_user_time, heartbeat>>

\* the FunctionPutOutputs call of a SUCCESS output returns: after a generator
\* value output_index.increase() and the next value, otherwise the funnel is
\* left
SendReturn ==
  /\ pc = "send"
  /\ IF Outputs[Len(put_outputs)].gen_status = "INCOMPLETE"
       THEN /\ output_index' = increase(output_index)
            /\ pc' = "iterate"
       ELSE /\ pc' = "post_input"
            /\ UNCHANGED output_index
  /\ now' = now + 1
  /\ UNCHANGED <<library, cfg, get_inputs_request, exc, scope, cur,
                 current_input_id, calls_completed, yields, res, caught,
                 put_outputs, handler_calls, task_results, hooks_run, signals,
                 next_input, args, blob_downloads, drain_task,
                 process_result>>
  /\ UNCHANGED <<current_input_started_at, total_user_time, handler_time,
                 heartbeat>>

\* the FunctionPutOutputs call of the FAILURE output returns: the except
\* clause ends and the exception is not re-raised
ExceptSendReturn ==
  /\ pc = "except_send"
  /\ pc' = "post_input"
  /\ now' = now + 1
  /\ UNCHANGED <<library, cfg, get_inputs_request, exc, scope, cur,
                 current_input_id, calls_completed, output_index, yields, res,
                 caught, put_outputs, handler_calls, task_results, hooks_run,
                 signals, next_input, args, blob_downloads, drain_task,
                 process_result>>
  /\ UNCHANGED <<current_input_started_at, total_user_time, handler_time,
                 heartbeat>>

\* ---------------------------------------------------------------- heartbeat
\* api_pb2.ContainerHeartbeatRequest as _heartbeat fills it in: each field is
\* set when the attribute it is copied from is not None
ContainerHeartbeatRequest(input_id, started_at) ==
  [current_input_id |-> IF input_id # NoInput THEN input_id ELSE NoInput,
   current_input_started_at |->
     IF started_at # NoTime THEN started_at ELSE NoTime]

\* the loop task is in wait_for(self._exited.wait(), timeout=sleep), after
\* an attempt that returned ("wait") or after one that failed and was logged
\* with "Loop attempt failed" ("wait_failed")
HeartbeatSleeping == heartbeat_pc \in {"wait", "wait_failed"}

\* variant of the loop that starts an attempt whether or not _exited is set
Heartbeat_after_exit ==
  /\ HeartbeatSleeping
  /\ heartbeat_request' =
       <<ContainerHeartbeatRequest(current_input_id,
                                   current_input_started_at)>>
  /\ heartbeat_pc' = "rpc"
  /\ UNCHANGED <<library, cfg, get_inputs_request, pc, exc, scope, cur,
                 current_input_id, calls_completed, output_index, yields, res,
                 caught, put_outputs, handler_calls, task_results, hooks_run,
                 signals, next_input, args, blob_downloads, drain_task,
                 process_result, timing>>

\* the sleep of the loop times out before _exited is set (continue), and
\* _heartbeat runs up to its await: the request is built from the two
\* attributes of the I/O manager, with no suspension in between, and sent.
\* The loop task runs next to the driver from before the import until the
\* with statement of main is left
Heartbeat ==
  /\ HeartbeatSleeping
  /\ ~_exited
  /\ heartbeat_request' =
       <<ContainerHeartbeatRequest(current_input_id,
                                   current_input_started_at)>>
  /\ heartbeat_pc' = "rpc"
  /\ UNCHANGED <<library, cfg, get_inputs_request, pc, exc, scope, cur,
                 current_input_id, calls_completed, output_index, yields, res,
                 caught, put_outputs, handler_calls, task_results, hooks_run,
                 signals, next_input, args, blob_downloads, drain_task,
                 process_result, timing>>

\* the ContainerHeartbeat call returns: the loop goes to its sleep
HeartbeatReturn ==
  /\ heartbeat_pc = "rpc"
  /\ heartbeat_request' = <<>>
  /\ heartbeat_pc' = "wait"
  /\ UNCHANGED <<library, cfg, get_inputs_request, pc, exc, scope, cur,
                 current_input_id, calls_completed, output_index, yields, res,
                 caught, put_outputs, handler_calls, task_results, hooks_run,
                 signals, next_input, args, blob_downloads, drain_task,
                 process_result, timing>>

\* variant of the loop without the except Exception clause: the exception
\* of the attempt ends the loop task
HeartbeatFails_uncaught ==
  /\ heartbeat_pc = "rpc"
  /\ heartbeat_request' = <<>>
  /\ heartbeat_pc' = "cancelled"
  /\ UNCHANGED <<library, cfg, get_inputs_request, pc, exc, scope, cur,
                 current_input_id, calls_completed, output_index, yields, res,
                 caught, put_outputs, handler_calls, task_results, hooks_run,
                 signals, next_input, args, blob_downloads, drain_task,
                 process_result, timing>>

\* the attempt raises: the RPC failed after its retries, or wait_for timed
\* out.  except Exception logs "Loop attempt failed" and the loop goes to
\* its sleep
HeartbeatFails ==
  /\ heartbeat_pc = "rpc"
  /\ heartbeat_request' = <<>>
  /\ heartbeat_pc' = "wait_failed"
  /\ UNCHANGED <<library, cfg, get_inputs_request, pc, exc, scope, cur,
                 current_input_id, calls_completed, output_index, yields, res,
                 caught, put_outputs, handler_calls, task_results, hooks_run,
                 signals, next_input, args, blob_downloads, drain_task,
                 process_result, timing>>

\* the sleep of the loop ends because _exited is set: the loop logs
\* "Exiting infinite loop" and breaks
HeartbeatExit ==
  /\ HeartbeatSleeping
  /\ _exited
  /\ heartbeat_pc' = "stopped"
  /\ UNCHANGED <<library, cfg, get_inputs_request, pc, exc, scope, cur,
                 current_input_id, calls_completed, output_index, yields, res,
                 caught, put_outputs, handler_calls, task_results, hooks_run,
                 signals, next_input, args, blob_downloads, drain_task,
                 process_result, timing, heartbeat_request>>

\* the grace period of stop() ends while the attempt is still in progress:
\* wait_for cancels the gathered task, the loop catches CancelledError and
\* breaks
HeartbeatCancelled ==
  /\ heartbeat_pc = "rpc"
  /\ pc = "stopping"
  /\ heartbeat_request' = <<>>
  /\ heartbeat_pc' = "cancelled"
  /\ UNCHANGED <<library, cfg, get_inputs_request, pc, exc, scope, cur,
                 current_input_id, calls_completed, output_index, yields, res,
                 caught, put_outputs, handler_calls, task_results, hooks_run,
                 signals, next_input, args, blob_downloads, drain_task,
                 process_result, timing>>

\* ------------------------------------------------------------------ signals
\* the suspension points of the driver at which a signal can land
Suspended ==
  \/ pc \in {"get_inputs", "download", "sleep", "iterate", "await_res",
             "send", "except_send", "loop_exit"}
  \/ pc = "task_result" /\ (scope # "import" \/ ~is_async)

\* SIGINT / SIGTERM: task.cancel() raises CancelledError at the await the
\* driver is suspended in (KeyboardInterrupt on the main thread of the sync
\* dispatcher); the exception then meets the enclosing try statements
Signal ==
  /\ signals < MaxSignals
  /\ Suspended
  /\ signals' = signals + 1
  /\ LET e == SignalException IN
     CASE pc \in {"get_inputs", "download", "sleep"} ->
            /\ exc' = e
            /\ pc' = "loop_exit"
            /\ UNCHANGED <<scope, caught, put_outputs, drain_task>>
       [] pc \in {"iterate", "await_res", "send"} ->
            /\ handle_input_exception(cur.input_id, output_index, e)
            /\ UNCHANGED <<scope, drain_task>>
       [] pc = "except_send" ->
            /\ exc' = e
            /\ pc' = "post_hook"
            /\ UNCHANGED <<scope, caught, put_outputs, drain_task>>
       [] pc = "loop_exit" ->
            /\ exc' = e
            /\ pc' = "post_hook"
            /\ drain_task' = stop(drain_task)
            /\ UNCHANGED <<scope, caught, put_outputs>>
       [] pc = "task_result" ->
            /\ exc' = e
            /\ pc' = AfterScope(scope)
            /\ scope' = "none"
            /\ UNCHANGED <<caught, put_outputs, drain_task>>
  /\ UNCHANGED <<library, cfg, get_inputs_request, cur, current_input_id,
                 calls_completed, output_index, yields, res, handler_calls,
                 task_results, hooks_run, next_input, args, blob_downloads,
                 process_result, timing, heartbeat>>

\* ---------------------------------------------------------- specification
Next ==
  \/ ImportOk
  \/ ImportRaises
  \/ TaskResultReturn
  \/ PreHookStep
  \/ LoopEnter
  \/ GetInputsRequest
  \/ RateLimited
  \/ SleepDone
  \/ KillSwitch
  \/ InputReceived
  \/ InputDecodeFails
  \/ Call
  \/ Iterate
  \/ AwaitRes
  \/ SendReturn
  \/ ExceptSendReturn
  \/ PostInput
  \/ LoopExit
  \/ PostHookStep
  \/ RunnerReturn
  \/ HeartbeatsExit
  \/ HeartbeatExit
  \/ MainReturn
  \/ Signal

Spec == Init /\ [][Next]_vars

\* The driver together with the heartbeat loop task.  A heartbeat step
\* changes heartbeat_pc and heartbeat_request only, and no step of the
\* driver reads them before TaskContext.stop(): up to there the driver
\* behaves in HeartbeatSpec as it does in Spec, where the loop task sleeps
\* until it is stopped
HeartbeatNext ==
  \/ Next
  \/ Heartbeat
  \/ HeartbeatReturn
  \/ HeartbeatFails
  \/ HeartbeatCancelled

\* the handlers that need no lifecycle hook and whose results stay inline;
\* HeartbeatSpec runs them: the loop task reads neither hooks nor results
PlainInit ==
  /\ Init
  /\ cfg.hooks = {}
  /\ cfg.data_len = MAX_OBJECT_SIZE_BYTES

HeartbeatSpec == PlainInit /\ [][HeartbeatNext]_vars

\* The driver with envelopes whose args are inline and envelopes whose
\* args are in a blob, for the handlers of HeartbeatSpec
BlobNext ==
  \/ Next
  \/ BlobInputReceived
  \/ PopulateInputBlobs
  \/ PopulateInputBlobsFails

BlobSpec == PlainInit /\ [][BlobNext]_vars

\* HookSpec runs the driver for every set of hooks an object can define,
\* the incomplete pairs included, with results that stay inline
HookInit ==
  /\ cfg \in [fun_kind : FunKinds, is_generator : BOOLEAN,
              hooks : SUBSET Hooks, data_len : {MAX_OBJECT_SIZE_BYTES},
              pickles : {Picklable}]
  /\ Start
  /\ LibraryIdle

HookSpec == HookInit /\ [][Next]_vars

\* PickleSpec runs the driver with user exceptions of which the object,
\* the traceback, both or neither can be serialized; the handlers need no
\* lifecycle hook
PickleInit ==
  /\ cfg \in [fun_kind : FunKinds, is_generator : BOOLEAN, hooks : {{}},
              data_len : DataLens, pickles : SUBSET Picklable]
  /\ Start
  /\ LibraryIdle

PickleSpec == PickleInit /\ [][Next]_vars

\* ==================================================================
\* modal_utils.async_utils: TaskContext
\* ==================================================================
\* A process in which the entrypoint takes no step: the library objects
\* are run on their own
ContainerIdle ==
  /\ cfg = [fun_kind |-> "function", is_generator |-> FALSE, hooks |-> {},
            data_len |-> MAX_OBJECT_SIZE_BYTES, pickles |-> Picklable]
  /\ Start

\* grace of TaskContext.__init__: None or a number of seconds
Graces == {"None", "number"}

\* a task of the context.  loop: made by infinite_loop (it is in _loops);
\* state: pending, done (returned), failed (ended with an exception),
\* cancelled; at: where a pending task is, in its coroutine ("body"), in
\* async_f ("attempt") or in the wait on _exited ("sleep")
Task(loop) ==
  [loop |-> loop, state |-> "pending",
   at |-> IF loop THEN "attempt" ELSE "body"]

TaskIds == 1..Len(tc_tasks)
Pending(t) == tc_tasks[t].state = "pending"

\* _exited.is_set(): stop() sets it first of all
tc_exited == tc_pc # "entered"

\* the positions of stop() at which it awaits and the tasks can run: the
\* two sleep(0) and the wait_for on the gather future
TasksRun == tc_pc \in {"entered", "stop", "grace", "finally"}

\* create_task / infinite_loop inside the context
create_task ==
  /\ tc_pc = "entered"
  /\ Len(tc_tasks) < MaxTasks
  /\ \E loop \in BOOLEAN : tc_tasks' = Append(tc_tasks, Task(loop))
  /\ UNCHANGED <<beside_task_context, tc_grace, tc_pc, tc_unfinished,
                 tc_visited>>

\* the coroutine of a task returns
TaskReturns ==
  /\ TasksRun
  /\ \E t \in TaskIds :
       /\ Pending(t) /\ ~tc_tasks[t].loop
       /\ tc_tasks' = [tc_tasks EXCEPT ![t].state = "done"]
  /\ UNCHANGED <<beside_task_context, tc_grace, tc_pc, tc_unfinished,
                 tc_visited>>

\* the coroutine of a task raises
TaskRaises ==
  /\ TasksRun
  /\ \E t \in TaskIds :
       /\ Pending(t) /\ ~tc_tasks[t].loop
       /\ tc_tasks' = [tc_tasks EXCEPT ![t].state = "failed"]
  /\ UNCHANGED <<beside_task_context, tc_grace, tc_pc, tc_unfinished,
                 tc_visited>>

\* loop_coro: async_f returns or raises an Exception, which is logged; the
\* loop goes to wait on _exited
LoopAttemptEnds ==
  /\ TasksRun
  /\ \E t \in TaskIds :
       /\ Pending(t) /\ tc_tasks[t].at = "attempt"
       /\ tc_tasks' = [tc_tasks EXCEPT ![t].at = "sleep"]
  /\ UNCHANGED <<beside_task_context, tc_grace, tc_pc, tc_unfinished,
                 tc_visited>>

\* loop_coro: the wait on _exited times out, next attempt
LoopSleepTimeout ==
  /\ TasksRun /\ ~tc_exited
  /\ \E t \in TaskIds :
       /\ Pending(t) /\ tc_tasks[t].at = "sleep"
       /\ tc_tasks' = [tc_tasks EXCEPT ![t].at = "attempt"]
  /\ UNCHANGED <<beside_task_context, tc_grace, tc_pc, tc_unfinished,
                 tc_visited>>

\* loop_coro: the wait on _exited returns, the loop is left
LoopExits ==
  /\ TasksRun /\ tc_exited
  /\ \E t \in TaskIds :
       /\ Pending(t) /\ tc_tasks[t].at = "sleep"
       /\ tc_tasks' = [tc_tasks EXCEPT ![t].state = "done"]
  /\ UNCHANGED <<beside_task_context, tc_grace, tc_pc, tc_unfinished,
                 tc_visited>>

\* __aexit__ -> stop(): _exited.set(), then sleep(0)
StopBegin ==
  /\ tc_pc = "entered"
  /\ tc_pc' = "stop"
  /\ UNCHANGED <<beside_task_context, tc_grace, tc_tasks, tc_unfinished,
                 tc_visited>>

\* stop(): unfinished_tasks is taken; with a grace and a task that is not
\* done the gather future is awaited, else stop goes on to its finally
StopUnfinished ==
  /\ tc_pc = "stop"
  /\ tc_unfinished' = {t \in TaskIds : Pending(t)}
  /\ tc_pc' = IF tc_grace # "None" /\ tc_unfinished' # {}
                THEN "grace" ELSE "finally"
  /\ UNCHANGED <<beside_task_context, tc_grace, tc_tasks, tc_visited>>

\* stop(): every gathered task ended within the grace period
GraceDone ==
  /\ tc_pc = "grace"
  /\ \A t \in tc_unfinished : ~Pending(t)
  /\ tc_pc' = "finally"
  /\ UNCHANGED <<beside_task_context, tc_grace, tc_tasks, tc_unfinished,
                 tc_visited>>

\* what CancelledError makes of a pending task: loop_coro catches it around
\* async_f and breaks, so that the task returns; elsewhere the task ends
\* cancelled
Cancelled(task) ==
  [task EXCEPT !.state = IF task.loop /\ task.at = "attempt"
                           THEN "done" ELSE "cancelled"]

\* stop(): the grace period ends first; wait_for cancels the gather future,
\* which cancels the gathered tasks that are still pending
GraceTimeout ==
  /\ tc_pc = "grace"
  /\ \E t \in tc_unfinished : Pending(t)
  /\ tc_tasks' = [t \in TaskIds |->
                    IF t \in tc_unfinished /\ Pending(t)
                      THEN Cancelled(tc_tasks[t]) ELSE tc_tasks[t]]
  /\ tc_pc' = "finally"
  /\ UNCHANGED <<beside_task_context, tc_grace, tc_unfinished, tc_visited>>

\* stop(), finally: sleep(0) and the await of the gather future are over
StopFinally ==
  /\ tc_pc = "finally"
  /\ tc_pc' = "sweep"
  /\ UNCHANGED <<beside_task_context, tc_grace, tc_tasks, tc_unfinished,
                 tc_visited>>

\* stop(), one round of `for task in self._tasks`, a set, in some order:
\* task.result() raises for a task that ended with an exception, and stop
\* is left with it; a task that is done or is a loop is passed over; any
\* other task is cancelled
SweepTask ==
  /\ tc_pc = "sweep"
  /\ \E t \in TaskIds \ tc_visited :
       /\ tc_visited' = tc_visited \cup {t}
       /\ IF tc_tasks[t].state = "failed"
            THEN tc_pc' = "raised" /\ UNCHANGED tc_tasks
            ELSE /\ tc_pc' = "sweep"
                 /\ IF ~Pending(t) \/ tc_tasks[t].loop
                      THEN UNCHANGED tc_tasks
                      ELSE tc_tasks' =
                             [tc_tasks EXCEPT ![t].state = "cancelled"]
  /\ UNCHANGED <<beside_task_context, tc_grace, tc_unfinished>>

\* stop() returns
StopReturns ==
  /\ tc_pc = "sweep"
  /\ tc_visited = TaskIds
  /\ tc_pc' = "returned"
  /\ UNCHANGED <<beside_task_context, tc_grace, tc_tasks, tc_unfinished,
                 tc_visited>>

TaskContextNext ==
  \/ create_task
  \/ TaskReturns
  \/ TaskRaises
  \/ LoopAttemptEnds
  \/ LoopSleepTimeout
  \/ LoopExits
  \/ StopBegin
  \/ StopUnfinished
  \/ GraceDone
  \/ GraceTimeout
  \/ StopFinally
  \/ SweepTask
  \/ StopReturns

TaskContextInit ==
  /\ ContainerIdle
  /\ tc_grace \in Graces
  /\ tc_tasks = <<>>
  /\ tc_pc = "entered"
  /\ tc_unfinished = {}
  /\ tc_visited = {}
  /\ RetryIdle
  /\ BatchIteratorIdle
  /\ ChunksIdle
  /\ SessionIdle

TaskContextSpec == TaskContextInit /\ [][TaskContextNext]_vars

\* ==================================================================
\* modal_utils.async_utils: retry
\* ==================================================================
\* base_delay of the decorator: 0, the default, or one second
BaseDelays == {0, 1}

\* delay_factor, the default
delay_factor == 2

\* what the k-th invocation of fn returns, and what it raises
ResultOf(k) == <<"result", k>>
ExceptionOf(k) == <<"Exception", k>>
\* wait_for raises asyncio.TimeoutError when the attempt takes over timeout
TimeoutOf(k) == <<"TimeoutError", k>>
CancelledError == <<"CancelledError">>
\* f_wrapped falls off the end of the for statement
None == <<"None">>

\* the exceptions of invocation k that `except Exception` catches
Failures(k) == {ExceptionOf(k), TimeoutOf(k)}

\* f_wrapped: next round of the for statement, fn is invoked inside
\* wait_for
RetryInvoke ==
  /\ rt_pc = "for"
  /\ rt_i < rt_n_attempts
  /\ rt_attempts' = Append(rt_attempts, <<"running">>)
  /\ rt_pc' = "attempt"
  /\ UNCHANGED <<beside_retry_call, rt_n_attempts, rt_i, rt_delay,
                 rt_result>>

\* f_wrapped: range(n_attempts) is exhausted, which takes n_attempts = 0
RetryForEnds ==
  /\ rt_pc = "for"
  /\ rt_i >= rt_n_attempts
  /\ rt_result' = None
  /\ rt_pc' = "returned"
  /\ UNCHANGED <<beside_retry_call, rt_n_attempts, rt_i, rt_delay,
                 rt_attempts>>

\* the attempt returns: f_wrapped returns its result
RetryAttemptReturns ==
  /\ rt_pc = "attempt"
  /\ rt_attempts' =
       [rt_attempts EXCEPT ![Len(rt_attempts)] = ResultOf(Len(rt_attempts))]
  /\ rt_result' = ResultOf(Len(rt_attempts))
  /\ rt_pc' = "returned"
  /\ UNCHANGED <<beside_retry_call, rt_n_attempts, rt_i, rt_delay>>

\* variant of the except clause that gives up one round later
RetryAttemptFails_one_more ==
  /\ rt_pc = "attempt"
  /\ \E e \in Failures(Len(rt_attempts)) :
       /\ rt_attempts' = [rt_attempts EXCEPT ![Len(rt_attempts)] = e]
       /\ IF rt_i >= rt_n_attempts
            THEN rt_result' = e /\ rt_pc' = "raised"
            ELSE rt_pc' = "sleep" /\ UNCHANGED rt_result
  /\ UNCHANGED <<beside_retry_call, rt_n_attempts, rt_i, rt_delay>>

\* the attempt raises an Exception or runs into the timeout of wait_for:
\* re-raised on the last round, else logged and f_wrapped sleeps
RetryAttemptFails ==
  /\ rt_pc = "attempt"
  /\ \E e \in Failures(Len(rt_attempts)) :
       /\ rt_attempts' = [rt_attempts EXCEPT ![Len(rt_attempts)] = e]
       /\ IF rt_i >= rt_n_attempts - 1
            THEN rt_result' = e /\ rt_pc' = "raised"
            ELSE rt_pc' = "sleep" /\ UNCHANGED rt_result
  /\ UNCHANGED <<beside_retry_call, rt_n_attempts, rt_i, rt_delay>>

\* the caller is cancelled while the attempt runs: except CancelledError
\* warns and re-raises
RetryAttemptCancelled ==
  /\ rt_pc = "attempt"
  /\ rt_attempts' =
       [rt_attempts EXCEPT ![Len(rt_attempts)] = CancelledError]
  /\ rt_result' = CancelledError
  /\ rt_pc' = "raised"
  /\ UNCHANGED <<beside_retry_call, rt_n_attempts, rt_i, rt_delay>>

\* the caller is cancelled during asyncio.sleep(delay), outside the try
RetrySleepCancelled ==
  /\ rt_pc = "sleep"
  /\ rt_result' = CancelledError
  /\ rt_pc' = "raised"
  /\ UNCHANGED <<beside_retry_call, rt_n_attempts, rt_i, rt_delay,
                 rt_attempts>>

\* asyncio.sleep(delay) returns; delay *= delay_factor, next i
RetrySleepDone ==
  /\ rt_pc = "sleep"
  /\ rt_delay' = rt_delay * delay_factor
  /\ rt_i' = rt_i + 1
  /\ rt_pc' = "for"
  /\ UNCHANGED <<beside_retry_call, rt_n_attempts, rt_attempts, rt_result>>

RetryNext ==
  \/ RetryInvoke
  \/ RetryForEnds
  \/ RetryAttemptReturns
  \/ RetryAttemptFails
  \/ RetryAttemptCancelled
  \/ RetrySleepCancelled
  \/ RetrySleepDone

\* a call of a function wrapped by retry(n_attempts=n, base_delay=d)
RetryInit ==
  /\ ContainerIdle
  /\ TaskContextIdle
  /\ rt_n_attempts \in 0..MaxAttempts
  /\ rt_i = 0
  /\ rt_delay \in BaseDelays
  /\ rt_pc = "for"
  /\ rt_attempts = <<>>
  /\ rt_result = <<>>
  /\ BatchIteratorIdle
  /\ ChunksIdle
  /\ SessionIdle

RetrySpec == RetryInit /\ [][RetryNext]_vars

\* ==================================================================
\* modal_utils.async_utils: queue_batch_iterator
\* ==================================================================
\* the sentinel that ends the iteration, and the k-th item the producer
\* puts
Sentinel == <<"None">>
Item(k) == <<"item", k>>

\* the producer puts the next item; it puts nothing after the sentinel
QueuePut ==
  /\ Len(qb_put) < MaxItems
  /\ Sentinel \notin {qb_put[k] : k \in 1..Len(qb_put)}
  /\ qb_put' = Append(qb_put, Item(Len(qb_put) + 1))
  /\ qb_q' = Append(qb_q, Item(Len(qb_put) + 1))
  /\ UNCHANGED <<beside_batch_iterator, qb_max_batch_size, qb_item_list,
                 qb_pc, qb_batches>>

\* the producer puts the sentinel
QueuePutNone ==
  /\ Sentinel \notin {qb_put[k] : k \in 1..Len(qb_put)}
  /\ qb_put' = Append(qb_put, Sentinel)
  /\ qb_q' = Append(qb_q, Sentinel)
  /\ UNCHANGED <<beside_batch_iterator, qb_max_batch_size, qb_item_list,
                 qb_pc, qb_batches>>

\* top of `while True`: with an empty queue and items at hand the list is
\* yielded and the iterator sleeps for debounce_time; else it goes to
\* q.get()
BatchDebounce ==
  /\ qb_pc = "while"
  /\ IF qb_q = <<>> /\ Len(qb_item_list) > 0
       THEN /\ qb_batches' = Append(qb_batches, qb_item_list)
            /\ qb_item_list' = <<>>
            /\ qb_pc' = "sleep"
       ELSE /\ qb_pc' = "get"
            /\ UNCHANGED <<qb_batches, qb_item_list>>
  /\ UNCHANGED <<beside_batch_iterator, qb_max_batch_size, qb_q, qb_put>>

\* asyncio.sleep(debounce_time) returns
BatchSleepDone ==
  /\ qb_pc = "sleep"
  /\ qb_pc' = "get"
  /\ UNCHANGED <<beside_batch_iterator, qb_max_batch_size, qb_q,
                 qb_item_list, qb_batches, qb_put>>

\* what the rest of the round yields once item, the res of q.get(), has
\* been taken off the queue: the list when it has max_batch_size items,
\* and, when item is the sentinel, the list as it is then
YieldedOnGet(item_list, item, max_batch_size) ==
  LET full == Len(item_list) >= max_batch_size
      rest == IF full THEN <<>> ELSE item_list
  IN (IF full THEN <<item_list>> ELSE <<>>)
       \o (IF item = Sentinel THEN <<rest>> ELSE <<>>)

\* variant that appends item to the list without looking at its length
ListAfterGet_unbounded(item_list, item, max_batch_size) ==
  IF item = Sentinel THEN item_list ELSE Append(item_list, item)

\* item_list at the end of the round: emptied when it was yielded for its
\* length, then item appended unless it is the sentinel
ListAfterGet(item_list, item, max_batch_size) ==
  LET rest == IF Len(item_list) >= max_batch_size THEN <<>> ELSE item_list
  IN IF item = Sentinel THEN rest ELSE Append(rest, item)

\* q.get() returns res, and the round runs to its end: the full list is
\* yielded; on the sentinel the list is yielded and the loop is left; any
\* other res is appended
BatchGet ==
  /\ qb_pc = "get"
  /\ qb_q # <<>>
  /\ qb_q' = Tail(qb_q)
  /\ qb_batches' =
       qb_batches \o YieldedOnGet(qb_item_list, Head(qb_q), qb_max_batch_size)
  /\ qb_item_list' =
       ListAfterGet(qb_item_list, Head(qb_q), qb_max_batch_size)
  /\ qb_pc' = IF Head(qb_q) = Sentinel THEN "done" ELSE "while"
  /\ UNCHANGED <<beside_batch_iterator, qb_max_batch_size, qb_put>>

BatchNext ==
  \/ QueuePut
  \/ QueuePutNone
  \/ BatchDebounce
  \/ BatchSleepDone
  \/ BatchGet

BatchInit ==
  /\ ContainerIdle
  /\ TaskContextIdle
  /\ RetryIdle
  /\ qb_max_batch_size \in 1..MaxBatchSize
  /\ qb_q = <<>>
  /\ qb_item_list = <<>>
  /\ qb_pc = "while"
  /\ qb_batches = <<>>
  /\ qb_put = <<>>
  /\ ChunksIdle
  /\ SessionIdle

BatchSpec == BatchInit /\ [][BatchNext]_vars

\* ==================================================================
\* modal_utils.async_utils: chunk_generator
\* ==================================================================
\* The underlying generator has cg_generator values, 1, 2, ...: its k-th
\* __anext__() returns k, and raises StopAsyncIteration past the last one.
\* The consumer takes a chunk from the outer generator and consumes it to
\* its end before it takes the next one.
\* task: None, or the task of the k-th __anext__(), pending or done
PendingTask(k) == <<"pending", k>>
DoneTask(k) ==
  IF k <= cg_generator THEN <<"value", k>> ELSE <<"StopAsyncIteration", k>>

\* outer generator, `while not done`: the next chunk is yielded and the
\* consumer starts on it; t0 is taken
ChunkStart ==
  /\ cg_pc = "while"
  /\ ~cg_done
  /\ Len(cg_chunks) < MaxChunks
  /\ cg_chunks' = Append(cg_chunks, <<>>)
  /\ cg_pc' = "try"
  /\ UNCHANGED <<beside_chunks, cg_generator, cg_anext_calls, cg_task,
                 cg_done>>

\* chunk(), top of the try: a task is made from generator.__anext__() when
\* there is none, and wait_for(shield(task)) is awaited
ChunkFetch ==
  /\ cg_pc = "try"
  /\ IF cg_task = None
       THEN /\ cg_anext_calls' = cg_anext_calls + 1
            /\ cg_task' = PendingTask(cg_anext_calls + 1)
       ELSE UNCHANGED <<cg_anext_calls, cg_task>>
  /\ cg_pc' = "wait"
  /\ UNCHANGED <<beside_chunks, cg_generator, cg_done, cg_chunks>>

\* the task of __anext__() ends, whatever the chunks do
AnextDone ==
  /\ cg_task[1] = "pending"
  /\ cg_task' = DoneTask(cg_task[2])
  /\ UNCHANGED <<beside_chunks, cg_generator, cg_anext_calls, cg_done,
                 cg_pc, cg_chunks>>

\* wait_for returns the value of the task: the chunk yields it
ChunkYield ==
  /\ cg_pc = "wait"
  /\ cg_task[1] = "value"
  /\ cg_chunks' =
       [cg_chunks EXCEPT ![Len(cg_chunks)] = Append(@, cg_task[2])]
  /\ cg_pc' = "yielded"
  /\ UNCHANGED <<beside_chunks, cg_generator, cg_anext_calls, cg_task,
                 cg_done>>

\* the consumer asks the chunk for the next value: task = None
ChunkResume ==
  /\ cg_pc = "yielded"
  /\ cg_task' = None
  /\ cg_pc' = "try"
  /\ UNCHANGED <<beside_chunks, cg_generator, cg_anext_calls, cg_done,
                 cg_chunks>>

\* variant in which the timeout forgets the task
ChunkTimeout_forgets_task ==
  /\ cg_pc = "wait"
  /\ cg_task[1] = "pending"
  /\ cg_task' = None
  /\ cg_pc' = "while"
  /\ UNCHANGED <<beside_chunks, cg_generator, cg_anext_calls, cg_done,
                 cg_chunks>>

\* wait_for runs into attempt_timeout while the task is pending: the
\* shield is cancelled, not the task, and the chunk returns
ChunkTimeout ==
  /\ cg_pc = "wait"
  /\ cg_task[1] = "pending"
  /\ cg_pc' = "while"
  /\ UNCHANGED <<beside_chunks, cg_generator, cg_anext_calls, cg_task,
                 cg_done, cg_chunks>>

\* wait_for raises the StopAsyncIteration of the task: done = True and the
\* chunk returns
ChunkStop ==
  /\ cg_pc = "wait"
  /\ cg_task[1] = "StopAsyncIteration"
  /\ cg_done' = TRUE
  /\ cg_pc' = "while"
  /\ UNCHANGED <<beside_chunks, cg_generator, cg_anext_calls, cg_task,
                 cg_chunks>>

\* outer generator: done, the while statement is left; the finally clause
\* cancels the task, which has ended
ChunksEnd ==
  /\ cg_pc = "while"
  /\ cg_done
  /\ cg_pc' = "ended"
  /\ UNCHANGED <<beside_chunks, cg_generator, cg_anext_calls, cg_task,
                 cg_done, cg_chunks>>

ChunkNext ==
  \/ ChunkStart
  \/ ChunkFetch
  \/ AnextDone
  \/ ChunkYield
  \/ ChunkResume
  \/ ChunkTimeout
  \/ ChunkStop
  \/ ChunksEnd

ChunkInit ==
  /\ ContainerIdle
  /\ TaskContextIdle
  /\ RetryIdle
  /\ BatchIteratorIdle
  /\ cg_generator \in 0..MaxValues
  /\ cg_anext_calls = 0
  /\ cg_task = None
  /\ cg_done = FALSE
  /\ cg_pc = "while"
  /\ cg_chunks = <<>>
  /\ SessionIdle

ChunkSpec == ChunkInit /\ [][ChunkNext]_vars

\* ==================================================================
\* Session (polyester/session.py): Session.run, _run, flush_objects,
\* create_object and register.  The session is driven by a program that
\* defines objects, opens `with session.run(client)`, may call
\* flush_objects itself, and leaves the scope by returning or by raising.
\* The log loop that _run starts in its TaskContext sends nothing but
\* SessionGetLogs and touches no field of the session; it is left out.

\* the number of a session_id
SessionNumber(session_id) == session_id[2]

\* Object.object_id, read by flush_objects: the object's _object_id (the
\* test in flush_objects does not look at the session that gave the id)
object_id(t) == ss_object[t].object_id

FlushIdle == [pc |-> "idle", obj |-> "none", session_id |-> <<"None">>]

\* register: the object is appended to both lists, also when it is there
register(objects, t) == Append(objects, t)

\* a program defines an object of the session: Session.register
SessionRegister(t) ==
  /\ ss_scope \in {"out", "in", "left", "raised"}
  /\ \A i \in 1..Len(ss_objects) : ss_objects[i] # t
  /\ ss_pending' = register(ss_pending, t)
  /\ ss_objects' = register(ss_objects, t)
  /\ UNCHANGED <<beside_session, ss_state, ss_client, ss_session_id,
                 ss_object, ss_flush_lock, ss_flush, ss_pc, ss_scope,
                 ss_requests, ss_runs, ss_rejected>>

\* the finally of _run
RunFinally ==
  /\ ss_client' = <<"None">>
  /\ ss_state' = "NONE"
  /\ ss_pc' = "none"

\* _run up to its first await: the state test passes, state and client
\* are set, every registered object becomes pending and SessionCreate is
\* sent
SessionRun ==
  /\ ss_state = "NONE"
  /\ ss_runs < MaxRuns
  /\ ss_runs' = ss_runs + 1
  /\ ss_state' = "STARTING"
  /\ ss_client' = <<"client", ss_runs + 1>>
  /\ ss_pending' = ss_objects
  /\ ss_requests' = Append(ss_requests, <<"SessionCreate", ss_runs + 1>>)
  /\ ss_pc' = "create"
  /\ ss_scope' = "entering"
  /\ UNCHANGED <<beside_session, ss_session_id, ss_objects, ss_object,
                 ss_flush_lock, ss_flush, ss_rejected>>

\* the state test inside the try: the finally would run
SessionRunRejected_in_try ==
  /\ ss_state # "NONE"
  /\ ss_rejected < MaxRejected
  /\ ss_rejected' = ss_rejected + 1
  /\ ss_client' = <<"None">>
  /\ ss_state' = "NONE"
  /\ UNCHANGED <<beside_session, ss_session_id, ss_objects, ss_pending,
                 ss_object, ss_flush_lock, ss_flush, ss_pc, ss_scope,
                 ss_requests, ss_runs>>

\* _run on a session whose state is not NONE: it raises before the try
SessionRunRejected ==
  /\ ss_state # "NONE"
  /\ ss_rejected < MaxRejected
  /\ ss_rejected' = ss_rejected + 1
  /\ UNCHANGED <<beside_session, ss_state, ss_client, ss_session_id,
                 ss_objects, ss_pending, ss_object, ss_flush_lock,
                 ss_flush, ss_pc, ss_scope, ss_requests, ss_runs>>

\* flush_objects entered without the lock
FlushCall_unlocked(f) ==
  /\ ss_flush' = [ss_flush EXCEPT ![f] = [FlushIdle EXCEPT !.pc = "loop"]]
  /\ UNCHANGED ss_flush_lock

\* flush_objects is called: `async with self._flush_lock` takes the lock
\* when it is free and waits otherwise
FlushCall(f) ==
  IF ss_flush_lock = "free"
  THEN /\ ss_flush_lock' = f
       /\ ss_flush' = [ss_flush EXCEPT ![f] = [FlushIdle EXCEPT !.pc = "loop"]]
  ELSE /\ ss_flush' = [ss_flush EXCEPT ![f] = [FlushIdle EXCEPT !.pc = "wait"]]
       /\ UNCHANGED ss_flush_lock

\* SessionCreate returns: session_id is set, the TaskContext is entered
\* and flush_objects is called
SessionCreateReturns ==
  /\ ss_pc = "create"
  /\ ss_session_id' = <<"se", ss_runs>>
  /\ FlushCall("run")
  /\ ss_pc' = "flush"
  /\ UNCHANGED <<beside_session, ss_state, ss_client, ss_objects,
                 ss_pending, ss_object, ss_scope, ss_requests, ss_runs,
                 ss_rejected>>

\* SessionCreate raises
SessionCreateFails ==
  /\ ss_pc = "create"
  /\ RunFinally
  /\ ss_scope' = "raised"
  /\ UNCHANGED <<beside_session, ss_session_id, ss_objects, ss_pending,
                 ss_object, ss_flush_lock, ss_flush, ss_requests, ss_runs,
                 ss_rejected>>

\* the program calls flush_objects while the session has a client
FlushCallUser ==
  /\ ss_pc \in {"flush", "set_objects", "body"}
  /\ ss_flush["user"].pc \in {"idle", "done", "raised"}
  /\ FlushCall("user")
  /\ UNCHANGED <<beside_session, ss_state, ss_client, ss_session_id,
                 ss_objects, ss_pending, ss_object, ss_pc, ss_scope,
                 ss_requests, ss_runs, ss_rejected>>

\* a waiting flush_objects gets the lock
FlushAcquire(f) ==
  /\ ss_flush[f].pc = "wait"
  /\ ss_flush_lock = "free"
  /\ ss_flush_lock' = f
  /\ ss_flush' = [ss_flush EXCEPT ![f].pc = "loop"]
  /\ UNCHANGED <<beside_session, ss_state, ss_client, ss_session_id,
                 ss_objects, ss_pending, ss_object, ss_pc, ss_scope,
                 ss_requests, ss_runs, ss_rejected>>

\* the while test of flush_objects finds the list empty: the lock is
\* released and flush_objects returns
FlushReturns(f) ==
  /\ ss_flush[f].pc = "loop"
  /\ ss_pending = <<>>
  /\ ss_flush_lock' = "free"
  /\ ss_flush' = [ss_flush EXCEPT ![f].pc = "done"]
  /\ UNCHANGED <<beside_session, ss_state, ss_client, ss_session_id,
                 ss_objects, ss_pending, ss_object, ss_pc, ss_scope,
                 ss_requests, ss_runs, ss_rejected>>

\* one round of the loop on an object that has an id: continue
FlushSkip(f) ==
  /\ ss_flush[f].pc = "loop"
  /\ ss_pending # <<>>
  /\ object_id(ss_pending[Len(ss_pending)]) # <<"None">>
  /\ ss_pending' = SubSeq(ss_pending, 1, Len(ss_pending) - 1)
  /\ UNCHANGED <<beside_session, ss_state, ss_client, ss_session_id,
                 ss_objects, ss_object, ss_flush_lock, ss_flush, ss_pc,
                 ss_scope, ss_requests, ss_runs, ss_rejected>>

\* one round of the loop on an object without an id: create_object
\* registers it again and sends the request that creates it
FlushCreate(f) ==
  /\ ss_flush[f].pc = "loop"
  /\ ss_pending # <<>>
  /\ LET obj == ss_pending[Len(ss_pending)]
         popped == SubSeq(ss_pending, 1, Len(ss_pending) - 1)
     IN /\ object_id(obj) = <<"None">>
        /\ ss_pending' = register(popped, obj)
        /\ ss_objects' = register(ss_objects, obj)
        /\ ss_requests' =
             Append(ss_requests, <<"Create", obj, ss_session_id>>)
        /\ ss_flush' =
             [ss_flush EXCEPT ![f] = [pc |-> "creating", obj |-> obj,
                                      session_id |-> ss_session_id]]
  /\ UNCHANGED <<beside_session, ss_state, ss_client, ss_session_id,
                 ss_object, ss_flush_lock, ss_pc, ss_scope, ss_runs,
                 ss_rejected>>

\* the request returns the id the server gave the object in the session
\* it was sent for; create_object stores it with the session's session_id
FlushCreated(f) ==
  /\ ss_flush[f].pc = "creating"
  /\ ss_object' =
       [ss_object EXCEPT ![ss_flush[f].obj] =
          [object_id |->
             <<"ob", SessionNumber(ss_flush[f].session_id), ss_flush[f].obj>>,
           session_id |-> ss_session_id]]
  /\ ss_flush' = [ss_flush EXCEPT ![f].pc = "loop"]
  /\ UNCHANGED <<beside_session, ss_state, ss_client, ss_session_id,
                 ss_objects, ss_pending, ss_flush_lock, ss_pc, ss_scope,
                 ss_requests, ss_runs, ss_rejected>>

\* the requests sent so far that create an object
CreateRequests ==
  Cardinality({i \in 1..Len(ss_requests) : ss_requests[i][1] = "Create"})

\* the request raises: the lock is released and flush_objects raises
FlushCreateFails(f) ==
  /\ ss_flush[f].pc = "creating"
  /\ CreateRequests <= MaxFailedCreates
  /\ ss_flush_lock' = "free"
  /\ ss_flush' = [ss_flush EXCEPT ![f].pc = "raised"]
  /\ UNCHANGED <<beside_session, ss_state, ss_client, ss_session_id,
                 ss_objects, ss_pending, ss_object, ss_pc, ss_scope,
                 ss_requests, ss_runs, ss_rejected>>

\* the object_ids of SessionSetObjects: the _object_id of every
\* registered object that has one
ObjectIds ==
  LET tags == {t \in Tags : /\ \E i \in 1..Len(ss_objects) : ss_objects[i] = t
                            /\ ss_object[t].object_id # <<"None">>}
  IN [t \in tags |-> ss_object[t].object_id]

\* flush_objects returned to _run: SessionSetObjects is sent
SessionSetObjects ==
  /\ ss_pc = "flush"
  /\ ss_flush["run"].pc = "done"
  /\ ss_flush' = [ss_flush EXCEPT !["run"] = FlushIdle]
  /\ ss_requests' =
       Append(ss_requests, <<"SessionSetObjects", ss_session_id, ObjectIds>>)
  /\ ss_pc' = "set_objects"
  /\ UNCHANGED <<beside_session, ss_state, ss_client, ss_session_id,
                 ss_objects, ss_pending, ss_object, ss_flush_lock,
                 ss_scope, ss_runs, ss_rejected>>

\* flush_objects raised in _run: the TaskContext is left and the finally
\* runs
SessionFlushRaised ==
  /\ ss_pc = "flush"
  /\ ss_flush["run"].pc = "raised"
  /\ ss_flush' = [ss_flush EXCEPT !["run"] = FlushIdle]
  /\ RunFinally
  /\ ss_scope' = "raised"
  /\ UNCHANGED <<beside_session, ss_session_id, ss_objects, ss_pending,
                 ss_object, ss_flush_lock, ss_requests, ss_runs,
                 ss_rejected>>

\* SessionSetObjects returns: state RUNNING, and the session is yielded
SessionSetObjectsReturns ==
  /\ ss_pc = "set_objects"
  /\ ss_state' = "RUNNING"
  /\ ss_pc' = "body"
  /\ ss_scope' = "in"
  /\ UNCHANGED <<beside_session, ss_client, ss_session_id, ss_objects,
                 ss_pending, ss_object, ss_flush_lock, ss_flush,
                 ss_requests, ss_runs, ss_rejected>>

\* SessionSetObjects raises
SessionSetObjectsFails ==
  /\ ss_pc = "set_objects"
  /\ RunFinally
  /\ ss_scope' = "raised"
  /\ UNCHANGED <<beside_session, ss_session_id, ss_objects, ss_pending,
                 ss_object, ss_flush_lock, ss_flush, ss_requests, ss_runs,
                 ss_rejected>>

\* the body of the with block ends: _run is resumed after its yield, sets
\* STOPPING, leaves the TaskContext and sends SessionStop
SessionBodyReturns ==
  /\ ss_pc = "body"
  /\ ss_state' = "STOPPING"
  /\ ss_requests' = Append(ss_requests, <<"SessionStop", ss_session_id>>)
  /\ ss_pc' = "stop"
  /\ ss_scope' = "leaving"
  /\ UNCHANGED <<beside_session, ss_client, ss_session_id, ss_objects,
                 ss_pending, ss_object, ss_flush_lock, ss_flush, ss_runs,
                 ss_rejected>>

\* the body of the with block raises: the exception is thrown into run at
\* its `yield it`, inside the async for over _run, and leaves run; _run
\* is not resumed and stays suspended at its yield
SessionBodyRaises ==
  /\ ss_pc = "body"
  /\ ss_pc' = "abandoned"
  /\ ss_scope' = "raised"
  /\ UNCHANGED <<beside_session, ss_state, ss_client, ss_session_id,
                 ss_objects, ss_pending, ss_object, ss_flush_lock,
                 ss_flush, ss_requests, ss_runs, ss_rejected>>

\* the suspended _run is closed when it is collected: GeneratorExit at
\* the yield leaves the TaskContext and runs the finally
SessionFinalize ==
  /\ ss_pc = "abandoned"
  /\ RunFinally
  /\ UNCHANGED <<beside_session, ss_session_id, ss_objects, ss_pending,
                 ss_object, ss_flush_lock, ss_flush, ss_scope,
                 ss_requests, ss_runs, ss_rejected>>

\* SessionStop returns: the logs are drained
SessionStopReturns ==
  /\ ss_pc = "stop"
  /\ ss_pc' = "drain"
  /\ UNCHANGED <<beside_session, ss_state, ss_client, ss_session_id,
                 ss_objects, ss_pending, ss_object, ss_flush_lock,
                 ss_flush, ss_scope, ss_requests, ss_runs, ss_rejected>>

\* SessionStop raises
SessionStopFails ==
  /\ ss_pc = "stop"
  /\ RunFinally
  /\ ss_scope' = "raised"
  /\ UNCHANGED <<beside_session, ss_session_id, ss_objects, ss_pending,
                 ss_object, ss_flush_lock, ss_flush, ss_requests, ss_runs,
                 ss_rejected>>

\* _get_logs(draining=True) returns: the finally runs and run ends
SessionDrainReturns ==
  /\ ss_pc = "drain"
  /\ RunFinally
  /\ ss_scope' = "left"
  /\ UNCHANGED <<beside_session, ss_session_id, ss_objects, ss_pending,
                 ss_object, ss_flush_lock, ss_flush, ss_requests, ss_runs,
                 ss_rejected>>

\* _get_logs(draining=True) raises: the stream ended without `done`
SessionDrainFails ==
  /\ ss_pc = "drain"
  /\ RunFinally
  /\ ss_scope' = "raised"
  /\ UNCHANGED <<beside_session, ss_session_id, ss_objects, ss_pending,
                 ss_object, ss_flush_lock, ss_flush, ss_requests, ss_runs,
                 ss_rejected>>

FlushNext(f) ==
  \/ FlushAcquire(f)
  \/ FlushReturns(f)
  \/ FlushSkip(f)
  \/ FlushCreate(f)
  \/ FlushCreated(f)
  \/ FlushCreateFails(f)

SessionNext ==
  \/ \E t \in Tags : SessionRegister(t)
  \/ SessionRun
  \/ SessionRunRejected
  \/ SessionCreateReturns
  \/ SessionCreateFails
  \/ FlushCallUser
  \/ \E f \in Flushers : FlushNext(f)
  \/ SessionSetObjects
  \/ SessionFlushRaised
  \/ SessionSetObjectsReturns
  \/ SessionSetObjectsFails
  \/ SessionBodyReturns
  \/ SessionBodyRaises
  \/ SessionFinalize
  \/ SessionStopReturns
  \/ SessionStopFails
  \/ SessionDrainReturns
  \/ SessionDrainFails

SessionInit ==
  /\ ContainerIdle
  /\ LibraryIdle

SessionSpec == SessionInit /\ [][SessionNext]_vars

\* ==================================================================
\* Properties
\* ==================================================================
\* the step in which a FunctionGetInputs request is sent
GetInputsSent == pc # "get_inputs" /\ pc' = "get_inputs"

\* kind of an output: FAILURE, or the generator status of a SUCCESS
Kind(o) == IF o.status = "FAILURE" THEN "FAILURE" ELSE o.gen_status

\* envelopes received without kill_switch; inputs handed to the dispatcher;
\* inputs whose processing ended with the bookkeeping of run_inputs_outputs
Accepted == 1..(next_input - 1)
Dispatched == 1..handler_calls
Completed == 1..calls_completed

FailureCount(s) == Cardinality({k \in 1..Len(s) : s[k].status = "FAILURE"})

\* ---- C1
\* the three patterns of the claim: a single NOT_GENERATOR; INCOMPLETE*
\* then COMPLETE; a single FAILURE
OriginalPattern(s) ==
  \/ Len(s) = 1 /\ Kind(s[1]) = "NOT_GENERATOR"
  \/ /\ Len(s) >= 1
     /\ Kind(s[Len(s)]) = "COMPLETE"
     /\ \A k \in 1..(Len(s) - 1) : Kind(s[k]) = "INCOMPLETE"
  \/ Len(s) = 1 /\ Kind(s[1]) = "FAILURE"

AmendedPattern(s) ==
  /\ Len(s) >= 1
  /\ \A k \in 1..(Len(s) - 1) : Kind(s[k]) = "INCOMPLETE"
  /\ Kind(s[Len(s)]) \in
       (IF cfg.is_generator THEN {"COMPLETE", "FAILURE"}
                            ELSE {"NOT_GENERATOR", "FAILURE"})
  /\ ~cfg.is_generator => Len(s) = 1

FunnelBody == {"call", "iterate", "await_res", "send", "except_send"}

C2_Inv ==
  (pc = "post_input" /\ caught \notin {"none", "CancelledError"}) =>
    LET s == OutputsOf(cur.input_id) IN
      /\ Len(s) >= 1
      /\ FailureCount(s) = 1
      /\ s[Len(s)].status = "FAILURE"
      /\ s[Len(s)].exception = caught
      /\ s[Len(s)].traceback # ""
      /\ exc = "none"

C2_Step ==
  /\ (pc \in FunnelBody /\ exc = "none" /\ exc' # "none")
        => exc' \in {"KeyboardInterrupt", "CancelledError"}
  /\ (pc = "post_input" /\ caught \notin {"none", "CancelledError"})
        => pc' = IF cur.final_input THEN "loop_exit" ELSE "poll"

\* C2: an exception raised inside the input funnel, other than the
\* cancellation / interrupt exception, never leaves the funnel; when the
\* funnel has handled it exactly one FAILURE output was sent for the current
\* input, as its last output, with the exception's repr and traceback; and
\* the loop goes on as after any input (next poll, unless it was final)
C2_FailureThenContinue == [] C2_Inv /\ [][C2_Step]_vars

\* a handler exception was reported and the next FunctionGetInputs is out
C2_Witness ==
  /\ pc = "get_inputs"
  /\ calls_completed >= 1
  /\ caught \in {"UserError", "InvalidError", "SerializeError"}
  /\ FailureCount(OutputsOf(calls_completed)) = 1

\* ---- C3
\* C3: no FAILURE output carries the cancellation exception, i.e. a signal
\* that cancels the driver during an input emits no FAILURE for that input
C3_NoFailureOnCancel ==
  \A k \in 1..Len(put_outputs) :
    Outputs[k].status = "FAILURE" => Outputs[k].exception # "CancelledError"

\* ---- C4
\* C4: once a signal was delivered to the async runner, no further
\* FunctionGetInputs request is sent and no further handler call is started
C4_NoActivityAfterSignal ==
  [][(is_async /\ signals > 0) =>
       /\ ~GetInputsSent
       /\ handler_calls' = handler_calls]_vars

\* ---- C5
\* C5: run_with_signal_handler never raises the cancellation error into main
C5_CancellationSwallowed ==
  (is_async /\ pc \in {"main", "exited"}) => exc # "CancelledError"

\* ---- C6
Raised ==
  SelectSeq(hooks_run, LAMBDA h : h[2] \notin {"ok", "KeyboardInterrupt"})

C6_Inv ==
  /\ Len(task_results) = Len(Raised)
  /\ \A k \in 1..Len(task_results) :
       /\ task_results[k].status = "FAILURE"
       /\ task_results[k].exception = Raised[k][2]
  /\ exc = "UserException" => Len(task_results) >= 1
  /\ (pc = "exited" /\ exc = "UserException")
        => process_result = "user_exception"

C6_Step ==
  /\ Len(task_results) >= 1 =>
       /\ ~GetInputsSent
       /\ handler_calls' = handler_calls
  /\ exc = "UserException" => exc' = "UserException"

\* C6: every exception of the import or of a lifecycle hook is reported by
\* one TaskResult(FAILURE) request, sent before UserException is raised;
\* after it no FunctionGetInputs request is sent and no handler is called,
\* and UserException reaches __main__, which ends the process
C6_TaskResultThenExit == [] C6_Inv /\ [][C6_Step]_vars

\* the post-run hook failed after an input was processed and the process
\* ended on UserException
C6_Witness ==
  /\ pc = "exited"
  /\ process_result = "user_exception"
  /\ Len(task_results) = 1
  /\ calls_completed >= 1

\* ---- C7
\* C7: the gen_index values of the outputs of an input are 0, 1, 2, ... in
\* the order the outputs were sent
C7_GenIndexSequence ==
  \A i \in Accepted :
    LET s == OutputsOf(i) IN \A k \in 1..Len(s) : s[k].gen_index = k - 1

\* ---- C8
\* C8: the terminator of an input (SUCCESS+COMPLETE or SUCCESS+NOT_GENERATOR)
\* is its last output: nothing is sent for the input after it
C8_TerminatorLast ==
  \A i \in Accepted :
    LET s == OutputsOf(i) IN
      \A k \in 1..Len(s) :
        Kind(s[k]) \in {"COMPLETE", "NOT_GENERATOR"} => k = Len(s)

\* ---- C9
C9_Inv ==
  /\ pc \in {"poll", "get_inputs", "sleep"} =>
       current_input_id = NoInput /\ Completed = Accepted
  /\ \A j, k \in 1..Len(put_outputs) :
       j < k => Outputs[j].input_id <= Outputs[k].input_id
  /\ \A k \in 1..Len(put_outputs) :
       Outputs[k].input_id \in Completed \cup {current_input_id}

C9_Step ==
  GetInputsSent =>
    /\ current_input_id = NoInput
    /\ Completed = Accepted

\* C9: a FunctionGetInputs request is sent only when no input is current and
\* every accepted input has been processed and accounted for; every output
\* belongs to a processed input or to the current one, and the outputs of
\* different inputs are not interleaved
C9_OneInputInFlight == [] C9_Inv /\ [][C9_Step]_vars

\* two inputs were processed one after the other, each with its outputs
C9_Witness ==
  /\ calls_completed = 2
  /\ Len(OutputsOf(1)) >= 1
  /\ Len(OutputsOf(2)) >= 1
  /\ pc = "get_inputs"

\* ---- C10
\* C10: every FunctionPutOutputs request is sent by the drain task of
\* _send_outputs, which takes the records from the output queue
C10_OutputsViaDrainTask ==
  \A k \in 1..Len(put_outputs) : put_outputs[k].task = "_send_outputs"

\* ---- C11
C11_Inv ==
  cur.kill_switch =>
    /\ pc \notin {"poll", "get_inputs", "sleep", "call", "iterate",
                  "await_res", "send", "except_send", "post_input"}
    /\ current_input_id = NoInput
    /\ Completed = Dispatched
    /\ \A k \in 1..Len(put_outputs) : Outputs[k].input_id \in Completed
    /\ (signals = 0 /\ task_results = <<>>) => exc = "none"
    /\ (pc = "exited" /\ signals = 0 /\ task_results = <<>>)
          => process_result = "done"

C11_Step ==
  /\ (~cur.kill_switch /\ cur'.kill_switch) =>
       /\ pc' = "loop_exit"
       /\ exc' = exc
  /\ cur.kill_switch =>
       /\ cur'.kill_switch
       /\ ~GetInputsSent
       /\ handler_calls' = handler_calls
       /\ put_outputs' = put_outputs
       /\ calls_completed' = calls_completed

\* C11: the response with kill_switch ends the input loop without an
\* exception; from then on no handler is called, no output is sent,
\* calls_completed keeps its value and no FunctionGetInputs request is sent;
\* unless a later signal or post-run hook raises, the process ends normally
C11_KillSwitchEndsLoop == [] C11_Inv /\ [][C11_Step]_vars

\* the kill switch came after one processed input and the process ended
C11_Witness ==
  /\ cur.kill_switch
  /\ pc = "exited"
  /\ process_result = "done"
  /\ calls_completed = 1
  /\ Len(put_outputs) >= 1

\* ---- C12
\* the final input has been processed and accounted for
FinalProcessed == cur.final_input /\ cur.input_id \in Completed

C12_Inv ==
  FinalProcessed =>
    /\ pc \notin {"poll", "get_inputs", "sleep", "call", "iterate",
                  "await_res", "send", "except_send", "post_input"}
    /\ Len(OutputsOf(cur.input_id)) >= 1
    /\ signals = 0 => AmendedPattern(OutputsOf(cur.input_id))

C12_Step ==
  /\ (pc = "post_input" /\ cur.final_input) =>
       /\ calls_completed' = calls_completed + 1
       /\ pc' = "loop_exit"
       /\ exc' = "none"
  /\ FinalProcessed =>
       /\ ~GetInputsSent
       /\ handler_calls' = handler_calls
       /\ put_outputs' = put_outputs
       /\ cur' = cur

\* C12: an input with final_input is dispatched and answered like any other
\* (its outputs are sent, with the same pattern, and calls_completed is
\* incremented); when it has been processed the input loop ends without an
\* exception and no FunctionGetInputs request is sent afterwards
C12_FinalInputEndsLoop == [] C12_Inv /\ [][C12_Step]_vars

\* the second input was final: it was answered and counted, and the process
\* ended normally
C12_Witness ==
  /\ FinalProcessed
  /\ cur.input_id = 2
  /\ calls_completed = 2
  /\ pc = "exited"
  /\ process_result = "done"

\* ---- C13
\* the step in which the rate-limited response arrives, and the sleep
RateLimitedStep == (pc = "get_inputs" /\ pc' = "sleep") \/ pc = "sleep"

C13_Inv ==
  pc = "sleep" =>
    /\ current_input_id = NoInput
    /\ current_input_started_at = NoTime
    /\ Completed = Dispatched

C13_Step ==
  RateLimitedStep =>
    /\ next_input' = next_input
    /\ handler_calls' = handler_calls
    /\ put_outputs' = put_outputs
    /\ calls_completed' = calls_completed
    /\ total_user_time' = total_user_time
    /\ current_input_id' = current_input_id
    /\ current_input_started_at' = current_input_started_at
    /\ (pc = "sleep" /\ signals' = signals) => pc' = "poll"

\* C13: a response with rate_limit_sleep_duration yields no input: from the
\* response until the sleep is over no handler is called, no output is
\* sent, and calls_completed, total_user_time, current_input_id and
\* current_input_started_at keep their values; the sleep is followed by the
\* next poll (unless a signal ends the sleep)
C13_RateLimitSleepsAndPolls == [] C13_Inv /\ [][C13_Step]_vars

\* a rate-limited poll after one input was processed
C13_Witness ==
  /\ pc = "sleep"
  /\ calls_completed = 1
  /\ total_user_time >= 1
  /\ next_input = 2

\* ---- C14
\* positions of the driver between the hand-over of an input to the
\* dispatcher and the bookkeeping that follows the dispatcher's loop body
Handling == {"call", "iterate", "await_res", "send", "except_send",
             "post_input"}

\* C14: current_input_id and current_input_started_at are set together, and
\* they are set exactly while an input is being handled: they are empty
\* while polling, during a rate-limit sleep and after the loop has ended
C14_CurrentIffHandling ==
  /\ (current_input_id # NoInput) <=> (current_input_started_at # NoTime)
  /\ (current_input_id # NoInput) <=> (pc \in Handling)

\* ---- C15
\* a terminal output: FAILURE, or SUCCESS that is not an INCOMPLETE value
Terminal(o) == Kind(o) \in {"FAILURE", "COMPLETE", "NOT_GENERATOR"}

\* inputs handed to the dispatcher for which a terminal output was sent
Terminated ==
  {i \in Dispatched :
     \E k \in 1..Len(put_outputs) :
       Outputs[k].input_id = i /\ Terminal(Outputs[k])}

\* C15: when the process has ended, calls_completed is the number of inputs
\* that were handed to the dispatcher and got a terminal output (SUCCESS or
\* FAILURE); kill-switch envelopes and rate-limited polls are not counted
C15_CompletedEqualsTerminated ==
  pc = "exited" => calls_completed = Cardinality(Terminated)

\* ---- C16
\* C16: when an input is accounted for, total_user_time grows by exactly the
\* time the handler itself ran for that input; the time of the
\* FunctionPutOutputs calls is not part of it
C16_UserTimeOnly ==
  [][calls_completed' # calls_completed =>
       total_user_time' - total_user_time = handler_time]_vars

\* ---- C17
\* the serialized payload an output was built from: the handler's value or
\* the exception; the end-of-generator output has none
PayloadOf(o) ==
  CASE Kind(o) = "COMPLETE" -> NoData
    [] Kind(o) = "FAILURE" -> serialize_exception(o.exception)
    [] OTHER -> cfg.data_len

\* C17: an output whose payload is at most MAX_OBJECT_SIZE_BYTES long
\* carries it inline as data, with no data_blob_id and no upload; an output
\* whose payload is longer carries the data_blob_id of the one blob uploaded
\* for it and no data; no output carries both.  This holds for scalar
\* results, generator values and the exception of a FAILURE output
C17_InlineXorBlob ==
  \A k \in 1..Len(put_outputs) :
    LET o == Outputs[k]
        uploads == put_outputs[k].uploads
        p == PayloadOf(o)
    IN /\ ~(o.data # NoData /\ o.data_blob_id # NoBlob)
       /\ p <= MAX_OBJECT_SIZE_BYTES =>
            /\ o.data = p
            /\ o.data_blob_id = NoBlob
            /\ uploads = <<>>
       /\ p > MAX_OBJECT_SIZE_BYTES =>
            /\ o.data = NoData
            /\ o.data_blob_id # NoBlob
            /\ uploads = <<p>>
            /\ \A j \in 1..(k - 1) :
                 Outputs[j].data_blob_id # o.data_blob_id

\* a generator whose value and whose exception were both offloaded, and a
\* scalar-sized inline counterpart exists in the runs with the short payload
C17_Witness ==
  /\ cfg.data_len > MAX_OBJECT_SIZE_BYTES
  /\ \E j, k \in 1..Len(put_outputs) :
       /\ Kind(Outputs[j]) = "INCOMPLETE"
       /\ Outputs[j].data_blob_id # NoBlob
       /\ Kind(Outputs[k]) = "FAILURE"
       /\ Outputs[k].data_blob_id # NoBlob
       /\ Outputs[k].data_blob_id # Outputs[j].data_blob_id

\* ---- C18
C18_Inv ==
  /\ Len(task_results) <= 1
  /\ Len(task_results) = Len(Raised)
  /\ Len(task_results) = 1 => pc \notin Handling

C18_Step ==
  task_results' # task_results =>
    /\ pc \in {"import", "pre_hook", "post_hook"}
    /\ hooks_run' # hooks_run
    /\ put_outputs' = put_outputs

\* C18: at most one TaskResult request is sent in a run; it is sent in the
\* step in which the import or a lifecycle hook raises, never while an
\* input is handled: the failure of an input sends a FAILURE output only
C18_TaskResultAtMostOnce == [] C18_Inv /\ [][C18_Step]_vars

\* an input failed and was answered with a FAILURE output; later the
\* post-run hook raised and the one TaskResult was sent
C18_Witness ==
  /\ pc = "exited"
  /\ Len(task_results) = 1
  /\ FailureCount(Outputs) >= 1
  /\ calls_completed >= 1

\* ---- C19
\* the input loop ended by the final input or by the kill switch
LoopEnded == cur.kill_switch \/ FinalProcessed

HeartbeatSent == heartbeat_pc # "rpc" /\ heartbeat_pc' = "rpc"

\* C20: the request of every heartbeat carries current_input_id and
\* current_input_started_at together or not at all; while an input is
\* handled they are the id and the start time of that input, and when no
\* input is active both are omitted
C20_HeartbeatSnapshot ==
  [][HeartbeatSent =>
       LET request == heartbeat_request'[1] IN
         /\ (request.current_input_id # NoInput)
              <=> (request.current_input_started_at # NoTime)
         /\ pc \in Handling =>
              /\ request.current_input_id = cur.input_id
              /\ request.current_input_id # NoInput
              /\ request.current_input_started_at = current_input_started_at
              /\ request.current_input_started_at # NoTime
         /\ pc \notin Handling =>
              /\ request.current_input_id = NoInput
              /\ request.current_input_started_at = NoTime]_vars

\* ---- C21
\* everything but the position and the request of the heartbeat loop task
driver_state ==
  <<cfg, pc, exc, scope, cur, current_input_id, calls_completed,
    output_index, yields, res, caught, put_outputs, handler_calls,
    task_results, hooks_run, signals, next_input, args, blob_downloads,
    drain_task, process_result, timing>>

\* the step in which an attempt of the heartbeat loop fails and is logged
HeartbeatFailed == heartbeat_pc = "rpc" /\ heartbeat_pc' = "wait_failed"

C21_Inv ==
  /\ HeartbeatEnded => _exited
  /\ (heartbeat_pc = "wait_failed" /\ ~_exited) =>
       /\ ENABLED Heartbeat
       /\ ENABLED Next

C21_Step ==
  /\ (heartbeat_pc = "rpc" /\ ~_exited') =>
       heartbeat_pc' \in {"rpc", "wait", "wait_failed"}
  /\ HeartbeatFailed => UNCHANGED driver_state
  /\ (heartbeat_pc = "wait_failed" /\ heartbeat_pc' # "wait_failed") =>
       \/ heartbeat_pc' = "rpc" /\ heartbeat_request' # <<>>
       \/ heartbeat_pc' = "stopped" /\ _exited

\* C21: a heartbeat attempt that fails (RPC error or timeout) is logged and
\* stops neither the heartbeat loop nor the driver.  The failing step changes
\* nothing of the driver and takes the loop task to its sleep; the loop task
\* ends only after the scope of heartbeats() was left; until then the next
\* attempt can be started from the sleep, it is the only way out of the
\* sleep, and the driver can take its next step
C21_HeartbeatFailureLogged == [] C21_Inv /\ [][C21_Step]_vars

\* an attempt has failed while the output of an input is being sent, and
\* the process is running
C21_Witness ==
  /\ heartbeat_pc = "wait_failed"
  /\ pc = "send"
  /\ current_input_id # NoInput
  /\ process_result = "running"

\* ---- C22
C22_Inv ==
  /\ pc = "exited" => HeartbeatEnded
  /\ HeartbeatEnded => _exited /\ heartbeat_request = <<>>
  /\ (pc = "stopping" /\ HeartbeatSleeping) => ENABLED HeartbeatExit
  /\ (pc = "stopping" /\ heartbeat_pc = "rpc") => ENABLED HeartbeatCancelled

C22_Step ==
  /\ _exited => ~HeartbeatSent
  /\ HeartbeatEnded => heartbeat_pc' = heartbeat_pc
  /\ (heartbeat_pc # "stopped" /\ heartbeat_pc' = "stopped") =>
       HeartbeatSleeping /\ _exited
  /\ (heartbeat_pc # "cancelled" /\ heartbeat_pc' = "cancelled") =>
       heartbeat_pc = "rpc" /\ pc = "stopping"

\* C22: when the scope of heartbeats() is left, however the input loop
\* ended, the loop task terminates before stop() returns: a sleeping task
\* sees the exit event and stops, a task whose attempt is still in progress
\* when the grace period ends is cancelled; these are the only two ways the
\* task ends, a task that ended stays ended, and no ContainerHeartbeat
\* attempt is started once the exit event is set
C22_HeartbeatStopsWithinGrace == [] C22_Inv /\ [][C22_Step]_vars

\* the kill switch ended the input loop and the loop task was cancelled
\* with its attempt in progress
C22_Witness ==
  /\ pc = "exited"
  /\ cur.kill_switch
  /\ put_outputs = <<>>
  /\ heartbeat_pc = "cancelled"
  /\ ExitCode(process_result) = 0

\* ---- C23
\* the mismatches of the claim, by dispatcher and mode
Mismatch(async, is_generator, obj) ==
  \/ ~async /\ ~is_generator /\ obj \in {"coroutine", "generator", "asyncgen"}
  \/ ~async /\ is_generator /\ obj # "generator"
  \/ async /\ is_generator /\ obj # "asyncgen"

\* the handler has returned, for the current input, a value that does not
\* match the mode
Mismatched == res # "none" /\ Mismatch(is_async, cfg.is_generator, res)

C23_Inv ==
  Mismatched =>
    LET s == OutputsOf(cur.input_id) IN
      /\ pc \notin {"iterate", "await_res", "send"}
      /\ Len(s) = 1
      /\ s[1].status = "FAILURE"
      /\ s[1].exception = "InvalidError"
      /\ caught = "InvalidError"

C23_Step ==
  /\ (Mismatched /\ pc = "except_send" /\ signals' = signals) =>
       pc' = "post_input" /\ exc' = "none"
  /\ (Mismatched /\ pc = "post_input") =>
       /\ pc' = IF cur.final_input THEN "loop_exit" ELSE "poll"
       /\ exc' = "none"
       /\ calls_completed' = calls_completed + 1

\* C23: when the value the handler returns does not match its mode (sync
\* scalar: a coroutine, generator or async generator; sync generator mode: not
\* a generator; async generator mode: not an async generator) the input gets
\* exactly one output, a FAILURE carrying the InvalidError, and no SUCCESS:
\* the value is neither iterated, awaited nor sent.  Once the FAILURE request
\* has returned the input is counted as completed and the loop polls for the
\* next input (it ends if the input was the final one)
C23_BadReturnTypeFails == [] C23_Inv /\ [][C23_Step]_vars

\* the second input is being dispatched after the first one failed with a
\* return-type mismatch
C23_Witness ==
  /\ pc = "call"
  /\ cur.input_id = 2
  /\ calls_completed = 1
  /\ Len(OutputsOf(1)) = 1
  /\ OutputsOf(1)[1].status = "FAILURE"
  /\ OutputsOf(1)[1].exception = "InvalidError"

\* ---- C24
\* the async dispatcher in scalar mode
AsyncScalar == is_async /\ ~cfg.is_generator

C24_Inv ==
  /\ ~InvalidReturn(TRUE, FALSE, "coroutine")
  /\ InvalidReturn(TRUE, FALSE, "generator")
  /\ InvalidReturn(TRUE, FALSE, "asyncgen")
  /\ (AsyncScalar /\ res = "coroutine") => caught # "InvalidError"
  /\ (AsyncScalar /\ res = "coroutine" /\ pc = "post_input"
        /\ caught = "none") =>
       LET s == OutputsOf(cur.input_id) IN
         /\ Len(s) = 1
         /\ s[1].status = "SUCCESS"
         /\ s[1].gen_status = "NOT_GENERATOR"
         /\ s[1].gen_index = 0
         /\ IF serialize("value") > MAX_OBJECT_SIZE_BYTES
              THEN s[1].data_blob_id # NoBlob
              ELSE s[1].data = serialize("value")
  /\ (AsyncScalar /\ res \in {"generator", "asyncgen"}) =>
       LET s == OutputsOf(cur.input_id) IN
         /\ Len(s) = 1
         /\ s[1].status = "FAILURE"
         /\ s[1].exception = "InvalidError"

C24_Step ==
  (AsyncScalar /\ pc = "call" /\ res' = "coroutine") =>
    /\ pc' = "await_res"
    /\ put_outputs' = put_outputs

\* C24: in scalar mode the async dispatcher accepts a coroutine: the call
\* that returns one sends nothing and goes on to await it, no InvalidError
\* is raised for it, and when the await and the send end without an
\* exception the input has exactly one output, SUCCESS + NOT_GENERATOR with
\* the serialized awaited value (inline or as a blob); a generator or an
\* async generator fails the type test and the only output of the input is
\* the FAILURE with the InvalidError
C24_AsyncScalarAcceptsCoroutine == [] C24_Inv /\ [][C24_Step]_vars

\* an async scalar handler returned a coroutine, and its awaited value was
\* sent
C24_Witness ==
  /\ AsyncScalar
  /\ res = "coroutine"
  /\ pc = "post_input"
  /\ caught = "none"
  /\ Len(OutputsOf(cur.input_id)) = 1
  /\ OutputsOf(cur.input_id)[1].gen_status = "NOT_GENERATOR"

\* ---- C25
\* number of calls of hook h so far, whatever their outcome
HookCalls(h) == Cardinality({k \in 1..Len(hooks_run) : hooks_run[k][1] = h})

\* hook h was called and returned
HookReturned(h) == \E k \in 1..Len(hooks_run) : hooks_run[k] = <<h, "ok">>

\* the post-run hook that belongs to a pre-run hook
Matching(h) ==
  CASE h = "__enter__" -> "__exit__"
    [] h = "__aenter__" -> "__aexit__"
    [] OTHER -> "none"

\* the pre-run hook the dispatcher at hand selects for the object
Pre == PreHook(is_async, cfg.hooks)

\* the post-run hooks: those an object can define, the calls made so far,
\* and whether the object defines one that the dispatcher at hand can run
\* (the sync dispatcher runs no async hook)
PostHooks == {"__exit__", "__aexit__"}
PostCalls == HookCalls("__exit__") + HookCalls("__aexit__")
HasPost == cfg.hooks \cap (IF is_async THEN PostHooks ELSE {"__exit__"}) # {}

\* positions of the driver inside run_inputs_outputs
InLoop ==
  pc \in {"loop_enter", "poll", "get_inputs", "download", "sleep", "call",
          "iterate", "await_res", "send", "except_send", "post_input",
          "loop_exit"}

\* positions of the driver after the dispatcher has ended
AfterDispatcher == pc \in {"runner", "main", "stopping", "exited"}

\* the dispatcher got as far as its try statement: the import succeeded and
\* the pre-run hook, if there is one, returned
LoopEntered ==
  /\ HookReturned("import")
  /\ Pre # "none" => HookReturned(Pre)
  /\ pc # "pre_hook"

C25_Inv ==
  /\ \A h \in Hooks : HookCalls(h) <= 1
  /\ (Pre # "none" /\ (InLoop \/ pc = "post_hook")) =>
       HookReturned(Pre) /\ hooks_run[2][1] = Pre
  /\ InLoop => PostCalls = 0
  /\ (HasPost /\ LoopEntered /\ AfterDispatcher) => PostCalls = 1
  /\ PostCalls <= 1
  /\ \A k \in 1..Len(hooks_run) :
       (hooks_run[k][1] \in Hooks
          /\ hooks_run[k][2] \notin {"ok", "KeyboardInterrupt"}) =>
         /\ \E j \in 1..Len(task_results) :
              /\ task_results[j].status = "FAILURE"
              /\ task_results[j].exception = hooks_run[k][2]
         /\ k = Len(hooks_run)
         /\ pc \notin {"task_result", "post_hook"} =>
              exc \in {"UserException", SignalException}

C25_Step ==
  /\ GetInputsSent => (Pre # "none" => HookReturned(Pre))
  /\ PostCalls' > PostCalls => pc = "post_hook" /\ LoopEntered
  /\ (Pre # "none" /\ HookCalls(Pre)' > HookCalls(Pre)) =>
       pc = "pre_hook" /\ put_outputs = <<>> /\ next_input = 1

\* C25: the pre-run hook the dispatcher selects is called once, right after
\* the import and before the first FunctionGetInputs request, and the loop is
\* entered only when it returned; the post-run hook is not called while the
\* input loop runs and has been called exactly once when the dispatcher has
\* ended, whether the loop ended on the final input, on the kill switch or
\* with an exception; an exception of either hook (other than
\* KeyboardInterrupt) is reported with TaskResult(FAILURE) and replaced by
\* UserException, and nothing else of the dispatcher runs after it
C25_HooksAroundLoop == [] C25_Inv /\ [][C25_Step]_vars

\* the loop ended with an exception (the arguments of an input could not be
\* decoded) and the post-run hook was still called, after the pre-run hook
C25_Witness ==
  /\ pc = "exited"
  /\ exc = "DecodeError"
  /\ Pre # "none"
  /\ Len(hooks_run) = 3
  /\ hooks_run[2] = <<Pre, "ok">>
  /\ hooks_run[3] = <<Matching(Pre), "ok">>

\* ---- C26
\* C26: the hooks are run by pair: a post-run hook is called only after the
\* pre-run hook of the same kind was called and returned, the sync
\* dispatcher calls no async hook, and the async dispatcher calls the sync
\* pair only when the object does not define the async one
C26_HooksByPair ==
  /\ \A k \in 1..Len(hooks_run) :
       hooks_run[k][1] \in PostHooks =>
         \E j \in 1..(k - 1) :
           /\ hooks_run[j][2] = "ok"
           /\ Matching(hooks_run[j][1]) = hooks_run[k][1]
  /\ ~is_async => HookCalls("__aenter__") + HookCalls("__aexit__") = 0
  /\ (is_async /\ {"__aenter__", "__aexit__"} \subseteq cfg.hooks) =>
       HookCalls("__enter__") + HookCalls("__exit__") = 0

\* ---- C27
\* a GenericResult that reports an exception carries its repr and the text
\* of its traceback, and the serialized traceback if there is one
BestEffort(r) ==
  /\ r.exception # ""
  /\ r.traceback # ""
  /\ r.serialized_tb =
       IF "traceback" \in cfg.pickles THEN serialize(r.exception) ELSE NoData

C27_Inv ==
  /\ \A k \in 1..Len(put_outputs) :
       Outputs[k].status = "FAILURE" =>
         /\ BestEffort(Outputs[k])
         /\ "exception" \notin cfg.pickles =>
              /\ Outputs[k].data = NoData
              /\ Outputs[k].data_blob_id = NoBlob
              /\ put_outputs[k].uploads = <<>>
         /\ "exception" \in cfg.pickles =>
              IF serialize(Outputs[k].exception) > MAX_OBJECT_SIZE_BYTES
                THEN Outputs[k].data_blob_id # NoBlob
                ELSE Outputs[k].data = serialize(Outputs[k].exception)
  /\ \A k \in 1..Len(task_results) :
       /\ BestEffort(task_results[k])
       /\ task_results[k].data =
            IF "exception" \in cfg.pickles
              THEN serialize(task_results[k].exception) ELSE NoData
  /\ Len(task_results) = Len(Raised)

C27_Step ==
  /\ (caught' # caught /\ caught' # "none") =>
       /\ Len(put_outputs') = Len(put_outputs) + 1
       /\ Outputs'[Len(put_outputs')].status = "FAILURE"
       /\ Outputs'[Len(put_outputs')].input_id = cur.input_id
       /\ Outputs'[Len(put_outputs')].exception = caught'
  /\ Len(Raised') > Len(Raised) =>
       /\ Len(task_results') = Len(task_results) + 1
       /\ task_results'[Len(task_results')].status = "FAILURE"

\* C27: whatever of a raised exception can be serialized, the failure is
\* reported: the step in which the input funnel catches an exception sends a
\* FAILURE output for the input, and the step in which the user-exception
\* funnel catches one sends the TaskResult.  The result always carries the
\* repr of the exception and the text of the traceback; the serialized
\* exception is left out (no data, no blob, no upload) when the exception
\* cannot be serialized, and the serialized traceback is left out when the
\* traceback cannot be extracted or serialized
C27_BestEffortSerialization == [] C27_Inv /\ [][C27_Step]_vars

\* the FAILURE output of an exception of which neither the object nor the
\* traceback could be serialized has been sent and the funnel is left
C27_Witness ==
  /\ cfg.pickles = {}
  /\ pc = "post_input"
  /\ caught = "UserError"
  /\ LET s == OutputsOf(cur.input_id) IN
       /\ s[Len(s)].status = "FAILURE"
       /\ s[Len(s)].exception = "UserError"
       /\ s[Len(s)].data = NoData
       /\ s[Len(s)].serialized_tb = NoData

\* ---- C28
\* number of blob_download calls made for the args of input i
DownloadsOf(i) ==
  Cardinality({k \in 1..Len(blob_downloads) : blob_downloads[k] = BlobId(i)})

\* the step in which an envelope is received, by the field of args_oneof
\* that is set in it
InlineReceived ==
  pc = "get_inputs" /\ next_input' # next_input /\ cur'.args_blob_id = NoArgs
BlobReceived ==
  pc = "get_inputs" /\ next_input' # next_input /\ cur'.args_blob_id # NoArgs

C28_Inv ==
  /\ \A k \in 1..Len(blob_downloads) :
       \E i \in Accepted : blob_downloads[k] = BlobId(i)
  /\ \A i \in Accepted : DownloadsOf(i) <= 1
  /\ pc = "download" =>
       /\ cur.args_blob_id = BlobId(cur.input_id)
       /\ cur.args = NoArgs
       /\ DownloadsOf(cur.input_id) = 1
       /\ cur.input_id \notin Dispatched
  /\ pc \in Handling =>
       /\ cur.args_blob_id = NoArgs
       /\ cur.args = FunctionInputArgs(cur.input_id)
       /\ args = <<"args", cur.input_id>>

C28_Step ==
  /\ InlineReceived => blob_downloads' = blob_downloads
  /\ BlobReceived =>
       /\ blob_downloads' = Append(blob_downloads, BlobId(cur'.input_id))
       /\ pc' = "download"
       /\ handler_calls' = handler_calls
  /\ ~BlobReceived => blob_downloads' = blob_downloads
  /\ (pc = "download" /\ pc' = "call") =>
       /\ cur'.args = <<"pickle", cur.input_id>>
       /\ cur'.args_blob_id = NoArgs
       /\ args' = <<"args", cur.input_id>>

\* C28: an envelope whose args are a blob id makes the I/O manager call
\* blob_download once, on that id, before the input is handed to the
\* dispatcher; when the download returns the envelope holds the downloaded
\* bytes as inline args and no blob id, and the handler is called on the
\* args deserialized from them, which are the args of that input.  An
\* envelope with inline args causes no download, and no download is made
\* at any other moment
C28_BlobArgsDownloadedOnce == [] C28_Inv /\ [][C28_Step]_vars

\* the first input had inline args and the second one a blob: one download,
\* and the handler ran on the args of the second input
C28_Witness ==
  /\ pc = "send"
  /\ cur.input_id = 2
  /\ handler_calls = 2
  /\ blob_downloads = <<BlobId(2)>>
  /\ args = <<"args", 2>>
  /\ Len(OutputsOf(2)) = 1

\* ---- C29
\* the seconds in total_user_time
TotalUserSeconds == Rat(total_user_time, TicksPerSecond)

\* m is the least integer with m * a >= RTT_S, for a > 0
IsCeilOfRttOver(m, a) ==
  /\ ~RatLess(Rat(m * a[1], a[2]), RTT_S)
  /\ RatLess(Rat((m - 1) * a[1], a[2]), RTT_S)

\* the two fields as the statement has them, in the state the request is
\* built from
ClaimedFields(req) ==
  /\ RatEq(req.average_call_time,
           RatDiv(TotalUserSeconds,
                  Rat(IF calls_completed > 1 THEN calls_completed ELSE 1, 1)))
  /\ IsCeilOfRttOver(req.max_values,
                     RatMax(req.average_call_time, MinCallTime))

\* C29 as stated: every FunctionGetInputs request carries
\* average_call_time = total_user_time / max(calls_completed, 1) and
\* max_values = ceil(RTT_S / max(average_call_time, 1e-6)), also when
\* calls_completed = 0
C29_Original == [][GetInputsSent => ClaimedFields(get_inputs_request')]_vars

C29_Inv ==
  pc = "get_inputs" =>
    /\ calls_completed = 0 =>
         /\ total_user_time = 0
         /\ get_inputs_request.average_call_time[1] = 0
         /\ get_inputs_request.max_values = 1
    /\ calls_completed > 0 => ClaimedFields(get_inputs_request)

C29_Step ==
  /\ GetInputsSent =>
       /\ calls_completed = 0 => get_inputs_request'.max_values = 1
       /\ calls_completed > 0 => ClaimedFields(get_inputs_request')
       /\ RatEq(get_inputs_request'.average_call_time,
                RatDiv(TotalUserSeconds,
                       Rat(IF calls_completed > 1 THEN calls_completed ELSE 1,
                           1)))
  /\ ~GetInputsSent => get_inputs_request' = get_inputs_request

\* C29 amended: every FunctionGetInputs request carries
\* average_call_time = total_user_time / max(calls_completed, 1); its
\* max_values is 1 while calls_completed = 0, and
\* ceil(RTT_S / max(average_call_time, 1e-6)) once calls_completed > 0.
\* The fields are those of the statistics at the moment the request is sent
\* and do not change while the call is in progress
C29_RequestStatistics == [] C29_Inv /\ [][C29_Step]_vars

\* a request sent after two calls that took 7 ticks: the average is above
\* 1e-6 s and RTT_S over it is no integer, so max_values is rounded up
C29_Witness ==
  /\ pc = "get_inputs"
  /\ calls_completed = 2
  /\ total_user_time = 7
  /\ RatLess(MinCallTime, get_inputs_request.average_call_time)
  /\ get_inputs_request.max_values = 428572

\* ---- C30
\* what deserialize and blob_download raise
ArgsErrors == {"DecodeError", "DownloadError"}

\* the driver is still pulling inputs
Pulling == InLoop /\ pc # "loop_exit"

\* C30: when deserialize raises on the args of an accepted input, or
\* blob_download raises for them, that input gets a FAILURE output and the
\* driver goes on pulling inputs: the input is not left without an output
\* and the loop is not left
C30_ArgsFailureReported ==
  exc \in ArgsErrors =>
    /\ FailureCount(OutputsOf(cur.input_id)) >= 1
    /\ Pulling

\* ---- C31
\* stop() has returned or raised: the context has been exited
ContextExited == tc_pc \in {"returned", "raised"}

\* C31: once the TaskContext has been exited, by stop() returning or
\* raising, none of its tasks is still pending: each has returned, ended
\* with an exception or been cancelled, whatever the grace
C31_NoTaskLeftRunning ==
  ContextExited => \A t \in TaskIds : ~Pending(t)

\* ---- C32
\* invocation k of fn ended with an exception that is retried
Failed(k) == rt_attempts[k][1] \in {"Exception", "TimeoutError"}
Succeeded(k) == rt_attempts[k][1] = "result"
Invocations == 1..Len(rt_attempts)
RetryEnded == rt_pc \in {"returned", "raised"}

C32_Inv ==
  /\ Len(rt_attempts) <= rt_n_attempts
  /\ \A k \in Invocations :
       /\ Succeeded(k) =>
            /\ k = Len(rt_attempts)
            /\ rt_pc = "returned"
            /\ rt_result = <<"result", k>>
       /\ rt_attempts[k] = <<"CancelledError">> =>
            /\ k = Len(rt_attempts)
            /\ rt_pc = "raised"
            /\ rt_result = <<"CancelledError">>
       /\ k < Len(rt_attempts) => Failed(k)
  /\ (rt_pc = "returned" /\ rt_n_attempts > 0) =>
       /\ rt_attempts # <<>>
       /\ Succeeded(Len(rt_attempts))
  /\ (Len(rt_attempts) = rt_n_attempts /\ rt_n_attempts > 0
        /\ Failed(rt_n_attempts)) =>
       /\ rt_pc = "raised"
       /\ rt_result = rt_attempts[rt_n_attempts]
  /\ rt_pc = "raised" =>
       \/ rt_result = <<"CancelledError">>
       \/ /\ Len(rt_attempts) = rt_n_attempts
          /\ \A k \in Invocations : Failed(k)
          /\ rt_result = rt_attempts[rt_n_attempts]

C32_Step ==
  /\ RetryEnded =>
       /\ rt_attempts' = rt_attempts
       /\ rt_result' = rt_result
       /\ rt_pc' = rt_pc
  /\ rt_result' = <<"CancelledError">> => Len(rt_attempts') = Len(rt_attempts)
  /\ Len(rt_attempts') \in {Len(rt_attempts), Len(rt_attempts) + 1}

\* C32: a call of a function wrapped by retry(n_attempts=n) invokes it at
\* most n times.  The first attempt that succeeds is the last one made, and
\* the call returns its result; when the n-th attempt fails too, by an
\* exception or by the timeout of the attempt, the call raises the
\* exception of that attempt; a cancellation, during an attempt or during
\* the sleep between two, is raised at once and no attempt follows it
C32_RetryAtMostN == [] C32_Inv /\ [][C32_Step]_vars

\* n = 3: an exception, a timeout, then the third attempt succeeds and its
\* result is returned
C32_Witness ==
  /\ rt_n_attempts = 3
  /\ rt_pc = "returned"
  /\ rt_attempts = <<<<"Exception", 1>>, <<"TimeoutError", 2>>,
                     <<"result", 3>>>>
  /\ rt_result = <<"result", 3>>

\* ---- C33
RECURSIVE Concat(_)
\* the concatenation of a sequence of lists
Concat(lists) ==
  IF lists = <<>> THEN <<>> ELSE Head(lists) \o Concat(Tail(lists))

\* what the producer put before the sentinel
PutBeforeSentinel == SelectSeq(qb_put, LAMBDA x : x # Sentinel)
SentinelPut == \E k \in 1..Len(qb_put) : qb_put[k] = Sentinel
SentinelRead == SentinelPut /\ \A k \in 1..Len(qb_q) : qb_q[k] # Sentinel

\* the items the iterator has taken off the queue: those it has yielded
\* and, until its last yield, those at hand
Taken ==
  Concat(qb_batches) \o (IF qb_pc = "done" THEN <<>> ELSE qb_item_list)

C33_Inv ==
  /\ Taken \o SelectSeq(qb_q, LAMBDA x : x # Sentinel) = PutBeforeSentinel
  /\ \A k \in 1..Len(PutBeforeSentinel) :
       PutBeforeSentinel[k] = <<"item", k>>
  /\ \A b \in 1..Len(qb_batches) :
       /\ Len(qb_batches[b]) <= qb_max_batch_size
       /\ \A k \in 1..Len(qb_batches[b]) : qb_batches[b][k] # Sentinel
  /\ Len(qb_item_list) <= qb_max_batch_size
  /\ qb_pc = "done" <=> SentinelRead
  /\ qb_pc = "done" => Concat(qb_batches) = PutBeforeSentinel

C33_Step == qb_pc = "done" => qb_batches' = qb_batches /\ qb_pc' = "done"

\* C33: the batches queue_batch_iterator yields, taken together and
\* followed by the list at hand and the items still on the queue, are the
\* items the producer put before the sentinel, each once and in the order
\* they were put; no batch is longer than max_batch_size and none holds
\* the sentinel; the iteration ends exactly when the sentinel has been
\* read, and then the batches hold every item put before it
C33_BatchesAreTheQueue == [] C33_Inv /\ [][C33_Step]_vars

\* max_batch_size = 2 and three items: a full batch was yielded for its
\* length, the third item on the sentinel, and the iteration has ended
C33_Witness ==
  /\ qb_pc = "done"
  /\ qb_max_batch_size = 2
  /\ Len(qb_batches) = 2
  /\ qb_batches[1] = <<<<"item", 1>>, <<"item", 2>>>>
  /\ qb_batches[2] = <<<<"item", 3>>>>

\* ---- C34
\* C34: every batch queue_batch_iterator yields holds at least one item,
\* however the puts of the producer, the sentinel included, fall between
\* the steps of the iterator
C34_NoEmptyBatch == \A b \in 1..Len(qb_batches) : qb_batches[b] # <<>>

\* ---- C35
\* the values the chunks have yielded so far, in order
Delivered == Concat(cg_chunks)

C35_Inv ==
  /\ Len(Delivered) <= cg_generator
  /\ \A k \in 1..Len(Delivered) : Delivered[k] = k
  /\ cg_anext_calls <= cg_generator + 1
  /\ cg_task # <<"None">> =>
       /\ cg_task[2] = cg_anext_calls
       /\ cg_task[2] = Len(Delivered) + (IF cg_pc = "yielded" THEN 0 ELSE 1)
  /\ cg_task = <<"None">> => cg_anext_calls = Len(Delivered)
  /\ cg_done =>
       /\ Len(Delivered) = cg_generator
       /\ cg_task[1] = "StopAsyncIteration"
  /\ cg_pc = "ended" => cg_done

C35_Step ==
  /\ (cg_pc = "wait" /\ cg_pc' = "while" /\ cg_task[1] = "pending") =>
       /\ cg_task' = cg_task
       /\ cg_anext_calls' = cg_anext_calls
  /\ (cg_pc = "while" /\ cg_done) => cg_pc' \in {"while", "ended"}
  /\ cg_pc = "ended" => cg_chunks' = cg_chunks /\ cg_pc' = "ended"

\* C35: with every chunk consumed to its end, the values the chunks of
\* chunk_generator yield, taken together, are the values of the underlying
\* generator in its order, none twice and none left out; a value whose
\* __anext__() is pending when a chunk times out stays with its task,
\* which is not made again, and a later chunk yields it; once the
\* underlying generator is exhausted every value has been yielded, no
\* further chunk is made and the outer generator ends
C35_ChunksLoseNothing == [] C35_Inv /\ [][C35_Step]_vars

\* a generator of two values: the first chunk yields 1 and times out on
\* the fetch of 2, the second chunk yields 2 and meets the end
C35_Witness ==
  /\ cg_pc = "ended"
  /\ cg_generator = 2
  /\ cg_chunks = <<<<1>>, <<2>>>>

\* ------------------------------------------------------------------
\* Session

StateCycle ==
  {<<"NONE", "STARTING">>, <<"STARTING", "RUNNING">>,
   <<"RUNNING", "STOPPING">>, <<"STOPPING", "NONE">>}

\* the moves the finally of _run makes when the run ends early
StateResets == {<<"STARTING", "NONE">>, <<"RUNNING", "NONE">>}

\* a run that the state test turned down changed nothing of the session
RejectedRunChangesNothing ==
  ss_rejected' # ss_rejected =>
    /\ ss_state # "NONE"
    /\ UNCHANGED <<ss_state, ss_client, ss_session_id, ss_pc, ss_scope>>

\* a run gets past the state test only when no run is in flight, and a
\* run is in flight exactly while the state is not NONE
OneRunActive ==
  /\ ss_state = "NONE" <=> ss_pc = "none"
  /\ ss_state = "NONE" <=> ss_client = <<"None">>

C36_Step(moves) ==
  /\ ss_state' # ss_state => <<ss_state, ss_state'>> \in moves
  /\ ss_runs' # ss_runs => ss_pc = "none" /\ ss_state = "NONE"
  /\ RejectedRunChangesNothing

\* C36 as stated: the state of a session only moves NONE -> STARTING ->
\* RUNNING -> STOPPING -> NONE, a run on a session whose state is not NONE
\* raises and leaves state, client and session_id as they are, and at most
\* one run is active.
C36_Original == []OneRunActive /\ [][C36_Step(StateCycle)]_vars

\* C36 amended: the state of a session moves NONE -> STARTING -> RUNNING ->
\* STOPPING -> NONE, or from STARTING or RUNNING straight back to NONE when
\* the run ends early; a run on a session whose state is not NONE raises
\* and leaves state, client and session_id as they are, and at most one
\* run is active.
C36_StateMoves ==
  []OneRunActive /\ [][C36_Step(StateCycle \cup StateResets)]_vars

\* a second run was turned down and the first went on to STOPPING
C36_Witness == ss_rejected > 0 /\ ss_state = "STOPPING"

\* C37: whenever the scope of Session.run has been left, by returning or
\* by an exception, the state is NONE and the client is None.
C37_LeftScopeIsReset ==
  ss_scope \in {"left", "raised"} =>
    ss_state = "NONE" /\ ss_client = <<"None">>

\* C38: when flush_objects has returned in a run, every registered object
\* has the _session_id of this run and an id obtained in this run.
C38_ObjectsOfThisRun ==
  ss_pc = "set_objects" =>
    \A i \in 1..Len(ss_objects) :
      /\ ss_object[ss_objects[i]].session_id = ss_session_id
      /\ ss_requests[Len(ss_requests)][3][ss_objects[i]] =
           <<"ob", SessionNumber(ss_session_id), ss_objects[i]>>

\* the flush_objects calls that are in their loop
InFlushLoop == {f \in Flushers : ss_flush[f].pc \in {"loop", "creating"}}

\* what is left to do for the flush loop: it goes down with every round
FlushMeasure ==
  2 * Len(ss_pending)
  + 3 * Cardinality({t \in Tags :
                       /\ ss_object[t].object_id = <<"None">>
                       /\ \E i \in 1..Len(ss_pending) : ss_pending[i] = t})
  - Cardinality({f \in Flushers : ss_flush[f].pc = "creating"})

C39_Inv ==
  /\ Cardinality(InFlushLoop) <= 1
  /\ \A f \in InFlushLoop : ss_flush_lock = f
  /\ \A f \in Flushers :
       ss_flush[f].pc = "creating" =>
         ss_object[ss_flush[f].obj].object_id = <<"None">>
  /\ FlushMeasure >= 0

C39_Step ==
  /\ \A f \in Flushers :
       /\ FlushSkip(f) \/ FlushCreate(f) \/ FlushCreated(f) =>
            FlushMeasure' < FlushMeasure
       /\ ss_flush[f].pc # "done" /\ ss_flush'[f].pc = "done" =>
            ss_pending' = <<>>
  /\ \A t \in Tags :
       ss_object'[t].object_id # ss_object[t].object_id =>
         ss_object[t].object_id = <<"None">>

\* C39: flush_objects calls are serialized by the flush lock; every round
\* of the loop brings it nearer to its end, it returns with the pending
\* list empty, and an object gets an id from the server at most once,
\* although create_object registers the object again.
C39_FlushCreatesOnce == []C39_Inv /\ [][C39_Step]_vars

\* both flush_objects calls were made at once and both objects created
C39_Witness ==
  /\ ss_flush["run"].pc = "done"
  /\ ss_flush["user"].pc = "done"
  /\ \A t \in Tags : ss_object[t].object_id # <<"None">>
  /\ Len(ss_objects) > Cardinality(Tags)
  /\ ss_pending = <<>>

\* C40: once the run whose SessionCreate succeeded is over, a SessionStop
\* for its session_id has been sent.
C40_StopSent ==
  ss_pc = "none" /\ ss_session_id = <<"se", ss_runs>> =>
    \E i \in 1..Len(ss_requests) :
      ss_requests[i] = <<"SessionStop", ss_session_id>>

====
